---- MODULE Spec2Model ----
(***************************************************************************)
(* Progress reconciliation of backend/server.py: the Progress Store (the   *)
(* user_progress collection), save_stage_completion (POST /progress/save), *)
(* sync_all_progress_to_web and the read operations get_user_progress,     *)
(* get_all_user_progress, get_user_stats and get_mobile_leaderboard, each  *)
(* as the chain of its suspension points.  A request handler runs without  *)
(* preemption from one                                                     *)
(* await to the next, so every action below is one await (the store or     *)
(* remote operation) together with the synchronous code that follows it up *)
(* to the next await.                                                      *)
(***************************************************************************)
EXTENDS Integers, Sequences, FiniteSets, TLC

(* ------------------------------ bounds --------------------------------- *)
\* requests accepted in one run
MaxRequests == 3
\* request handlers that may be suspended at the same time
MaxInFlight == 2
\* stage numbers submitted are 1..MaxStage
MaxStage == 3
\* the clock (datetime.utcnow) takes the values 0..MaxClock
MaxClock == 1

Users == {"u1", "u2"}
Modules == {"m1"}
LearningTypes == {"fill_blank", "verbal"}
Stages == 1..MaxStage
\* Requests are numbered in their order of arrival
Requests == 1..MaxRequests
\* The card, points, time and accuracy a client submits (two different
\* submissions, so that a resubmission can differ in every one of them).
Payloads ==
  { [cardId |-> "c1", pointsEarned |-> 100, timeSpent |-> 30, accuracy |-> 95],
    [cardId |-> "c2", pointsEarned |-> 0, timeSpent |-> 45, accuracy |-> 50] }
\* What a push to the remote can come back with: 200 with a JSON body, 200
\* with a body that is not JSON, another status, a timeout or transport error.
Outcomes == {"ok", "malformed", "non200", "error"}

(* ------------------------- program constants --------------------------- *)
\* timedelta(days=7): the clock counts days
WeekDays == 7
\* to_list(length=1000)
LeaderboardScanLimit == 1000
DefaultTotalPoints == 0
DefaultHighestStage == 1
DefaultTimeSpent == 60
DefaultAccuracy == 100

VARIABLES
  store,     \* db.user_progress: the documents in insertion order
  reqs,      \* the request handlers, by request number
  now,       \* the clock: the instant of the latest datetime.utcnow()
  started,   \* number of requests accepted so far
  calls,     \* history: per (userId, moduleId, stage, learningType), the
             \* number of answered calls and what the first answered call
             \* submitted and was awarded
  last       \* history: the request answered last, with its response and
             \* the pushes it made

vars == <<store, reqs, now, started, calls, last>>

(* --------------------------- pure functions ---------------------------- *)
\* dict.get(field, default)
Get(d, field, default) == IF field \in DOMAIN d THEN d[field] ELSE default

Max(a, b) == IF a >= b THEN a ELSE b

\* f"{stage}-{learningType}": stage is an int, so the text before the first
\* "-" is the stage and the rest is the learning type; the key is kept as
\* these two parts.
\* (a key built from the stage alone)
ProgressKeyStageOnly(stage, learningType) == <<stage, "">>

ProgressKey(stage, learningType) == <<stage, learningType>>

\* datetime.isoformat(): the text of the instant, with the UTC offset
\* appended only for an aware datetime.
IsoFormat(dt) == <<dt.t, IF dt.aware THEN "+00:00" ELSE "">>

\* datetime.utcnow(): a naive datetime
UtcNow(clock) == [t |-> clock, aware |-> FALSE]

\* The StageRecord written for a completion
StageRecord(c) ==
  [cardId |-> c.cardId,
   pointsEarned |-> c.pointsEarned,
   completedAt |-> IsoFormat(c.completedAt),
   timeSpent |-> c.timeSpent,
   accuracy |-> c.accuracy]

\* completed_stages[progress_key] = {...}: the assignment replaces an entry
DictSet(d, k, v) == [x \in DOMAIN d \cup {k} |-> IF x = k THEN v ELSE d[x]]

\* find_one({"userId": u, "moduleId": m}): the first matching document, as a
\* sequence of length 0 (None) or 1
Matching(s, u, m) == {i \in 1..Len(s) : s[i].userId = u /\ s[i].moduleId = m}
FirstMatch(s, u, m) ==
  CHOOSE i \in Matching(s, u, m) : \A j \in Matching(s, u, m) : i <= j
FindOne(s, u, m) ==
  IF Matching(s, u, m) = {} THEN <<>> ELSE <<s[FirstMatch(s, u, m)]>>

\* update_one(filter, {"$set": fields}): sets the fields of the first
\* matching document and does nothing when none matches (no upsert)
UpdateOne(s, u, m, fields) ==
  IF Matching(s, u, m) = {} THEN s
  ELSE [s EXCEPT ![FirstMatch(s, u, m)] =
          [f \in DOMAIN @ |-> IF f \in DOMAIN fields THEN fields[f] ELSE @[f]]]

\* insert_one(doc)
InsertOne(s, doc) == Append(s, doc)

\* (the total overwritten by the event's points instead of increased)
UpdateFieldsOverwriteTotal(existing, c, clock) ==
  [completedStages |->
     DictSet(Get(existing, "completedStages", <<>>),
             <<c.stage, c.learningType>>, StageRecord(c)),
   totalPoints |-> c.pointsEarned,
   highestStage |-> Max(Get(existing, "highestStage", DefaultHighestStage), c.stage),
   lastAccessed |-> UtcNow(clock)]

\* (the highest stage set to the event's stage, without max)
UpdateFieldsNoMax(existing, c, clock) ==
  [completedStages |->
     DictSet(Get(existing, "completedStages", <<>>),
             <<c.stage, c.learningType>>, StageRecord(c)),
   totalPoints |-> Get(existing, "totalPoints", DefaultTotalPoints) + c.pointsEarned,
   highestStage |-> c.stage,
   lastAccessed |-> UtcNow(clock)]

\* The $set of lines 92-112, from the document read at line 75
UpdateFields(existing, c, clock) ==
  [completedStages |->
     DictSet(Get(existing, "completedStages", <<>>),
             ProgressKey(c.stage, c.learningType), StageRecord(c)),
   totalPoints |-> Get(existing, "totalPoints", DefaultTotalPoints) + c.pointsEarned,
   highestStage |-> Max(Get(existing, "highestStage", DefaultHighestStage), c.stage),
   lastAccessed |-> UtcNow(clock)]

\* new_progress of lines 117-132
NewProgress(c, clock) ==
  [userId |-> c.userId,
   moduleId |-> c.moduleId,
   completedStages |->
     DictSet(<<>>, ProgressKey(c.stage, c.learningType), StageRecord(c)),
   totalPoints |-> c.pointsEarned,
   highestStage |-> c.stage,
   lastAccessed |-> UtcNow(clock)]

\* (no translation: the internal token is sent to the remote)
LearningTypeUntranslated(lt) == lt

\* learning_type_map.get(learningType, learningType)
LearningTypeFormatted(lt) ==
  CASE lt = "fill_blank" -> "fill-in-blank"
    [] lt = "word_cloud" -> "word-cloud"
    [] lt = "verbal" -> "verbal-speaking"
    [] OTHER -> lt

\* Whether the replay loop pushes stage s: the stage being completed, or a
\* stage with a stored StageRecord; any other stage is skipped (continue).
Replayed(c, completed_stages, s) ==
  \/ s = c.stage
  \/ ProgressKey(s, c.learningType) \in DOMAIN completed_stages

\* (a prior stage pushed with the defaults instead of its stored values)
SyncPayloadDefaults(c, completed_stages, s) ==
  [moduleId |-> c.moduleId,
   cardId |-> c.cardId,
   learningType |-> LearningTypeFormatted(c.learningType),
   stage |-> s,
   timeSpent |-> IF s = c.stage THEN c.timeSpent ELSE DefaultTimeSpent,
   passed |-> IF s = c.stage THEN c.pointsEarned > 0 ELSE TRUE,
   accuracy |-> IF s = c.stage THEN c.accuracy ELSE DefaultAccuracy]

\* (a prior stage is pushed as passed only when it earned points)
SyncPayloadPassedByPoints(c, completed_stages, s) ==
  IF s = c.stage
  THEN [moduleId |-> c.moduleId,
        cardId |-> c.cardId,
        learningType |-> LearningTypeFormatted(c.learningType),
        stage |-> s,
        timeSpent |-> c.timeSpent,
        passed |-> c.pointsEarned > 0,
        accuracy |-> c.accuracy]
  ELSE LET stage_data == completed_stages[ProgressKey(s, c.learningType)]
       IN [moduleId |-> c.moduleId,
           cardId |-> Get(stage_data, "cardId", c.cardId),
           learningType |-> LearningTypeFormatted(c.learningType),
           stage |-> s,
           timeSpent |-> Get(stage_data, "timeSpent", DefaultTimeSpent),
           passed |-> Get(stage_data, "pointsEarned", 0) > 0,
           accuracy |-> Get(stage_data, "accuracy", DefaultAccuracy)]

\* sync_payload of lines 169-191
SyncPayload(c, completed_stages, s) ==
  IF s = c.stage
  THEN [moduleId |-> c.moduleId,
        cardId |-> c.cardId,
        learningType |-> LearningTypeFormatted(c.learningType),
        stage |-> s,
        timeSpent |-> c.timeSpent,
        passed |-> c.pointsEarned > 0,
        accuracy |-> c.accuracy]
  ELSE LET stage_data == completed_stages[ProgressKey(s, c.learningType)]
       IN [moduleId |-> c.moduleId,
           cardId |-> Get(stage_data, "cardId", c.cardId),
           learningType |-> LearningTypeFormatted(c.learningType),
           stage |-> s,
           timeSpent |-> Get(stage_data, "timeSpent", DefaultTimeSpent),
           passed |-> TRUE,
           accuracy |-> Get(stage_data, "accuracy", DefaultAccuracy)]

\* (range(1, completion.stage): the loop stops one stage short)
StagesToPushExclusive(c, completed_stages, from) ==
  {s \in from..(c.stage - 1) : Replayed(c, completed_stages, s)}

\* range(1, completion.stage + 1) from stage_num on: the stages still to be
\* pushed
StagesToPush(c, completed_stages, from) ==
  {s \in from..c.stage : Replayed(c, completed_stages, s)}
NextStage(c, completed_stages, from) ==
  CHOOSE s \in StagesToPush(c, completed_stages, from) :
    \A t \in StagesToPush(c, completed_stages, from) : s <= t

\* (a stored key counts as completed only for the card it was stored with)
AlreadyCompletedSameCard(existing, c) ==
  /\ ProgressKey(c.stage, c.learningType)
       \in DOMAIN Get(existing, "completedStages", <<>>)
  /\ existing.completedStages[ProgressKey(c.stage, c.learningType)].cardId = c.cardId

\* progress_key in existing.get("completedStages", {}), for the result of
\* find_one when it is not None
AlreadyCompleted(existing, c) ==
  ProgressKey(c.stage, c.learningType)
    \in DOMAIN Get(existing, "completedStages", <<>>)

(* ------------------------------ requests ------------------------------- *)
NoCompletion == <<>>
IdleReq ==
  [pc |-> "idle", completion |-> NoCompletion, auth |-> FALSE,
   write |-> <<>>, completed_stages |-> <<>>, stage_num |-> 0,
   synced_count |-> 0, pushed |-> <<>>, response |-> <<>>]

DoneReq == [IdleReq EXCEPT !.pc = "done"]

InFlight(r) == reqs[r].pc \notin {"idle", "done"}
NumInFlight == Cardinality({r \in Requests : InFlight(r)})

CallKey(c) == <<c.userId, c.moduleId, c.stage, c.learningType>>

\* The history after a call for completion c has been answered
Answered(h, c, awarded) ==
  IF CallKey(c) \in DOMAIN h
  THEN [h EXCEPT ![CallKey(c)].n = @ + 1]
  ELSE [k \in DOMAIN h \cup {CallKey(c)} |->
          IF k = CallKey(c)
          THEN [n |-> 1, pointsEarned |-> c.pointsEarned, pointsAwarded |-> awarded]
          ELSE h[k]]

\* JSONResponse of lines 84-89 and 219-224; the handler's locals are dead
Respond(q, awarded, already, message) ==
  [q EXCEPT !.pc = "done",
            !.write = <<>>,
            !.completed_stages = <<>>,
            !.stage_num = 0,
            !.response = <<[success |-> TRUE, pointsAwarded |-> awarded,
                            message |-> message, alreadyCompleted |-> already]>>]

Success(q) ==
  Respond(q, q.completion.pointsEarned, FALSE, "Progress saved successfully")

\* (the pushes of the remaining stages are all sent together and awaited
\* as one)
ReplayGathered(q, completed_stages, from) ==
  LET S == StagesToPush(q.completion, completed_stages, from)
      nth(i) == CHOOSE x \in S : Cardinality({t \in S : t <= x}) = i
  IN IF S = {}
     THEN Success(q)
     ELSE [q EXCEPT !.pc = "post",
                    !.completed_stages = completed_stages,
                    !.stage_num = q.completion.stage,
                    !.pushed = @ \o [i \in 1..Cardinality(S) |->
                                      SyncPayload(q.completion, completed_stages, nth(i))]]

\* The replay loop from stage `from` on, up to its next await: the post of
\* the next replayed stage, or the end of the loop and the response
Replay(q, completed_stages, from) ==
  IF StagesToPush(q.completion, completed_stages, from) = {}
  THEN Success(q)
  ELSE LET s == NextStage(q.completion, completed_stages, from)
       IN [q EXCEPT !.pc = "post",
                    !.completed_stages = completed_stages,
                    !.stage_num = s,
                    !.pushed = Append(@, SyncPayload(q.completion, completed_stages, s))]

\* What is kept of an answered request
Result(q) ==
  [completion |-> q.completion, auth |-> q.auth,
   response |-> q.response[1], pushed |-> q.pushed]

\* Handler r goes on as q: it is suspended at its next await, or it has
\* responded and is over
Continue(r, q) ==
  IF q.pc = "done"
  THEN /\ reqs' = [reqs EXCEPT ![r] = DoneReq]
       /\ last' = <<Result(q)>>
       /\ calls' = Answered(calls, q.completion, q.response[1].pointsAwarded)
  ELSE /\ reqs' = [reqs EXCEPT ![r] = q]
       /\ UNCHANGED <<calls, last>>

(* ------------------------------- actions ------------------------------- *)
Init ==
  /\ store = <<>>
  /\ reqs = [r \in Requests |-> IdleReq]
  /\ now = 0
  /\ started = 0
  /\ calls = <<>>
  /\ last = <<>>

\* datetime.utcnow() is read and gives t: the clock never runs backwards,
\* and any time may have passed since it was last read.
ReadClock(t) ==
  /\ t \in now..MaxClock
  /\ now' = t

\* A request arrives: pydantic builds the StageCompletion from the body
\* {userId, moduleId, cardId, stage, learningType, pointsEarned, timeSpent,
\* accuracy}, completedAt defaults to utcnow, and the handler awaits
\* find_one (line 75).
Start(r, u, m, stage, lt, p, auth, t) ==
  /\ r = started + 1
  /\ r <= MaxRequests
  /\ NumInFlight < MaxInFlight
  /\ ReadClock(t)
  /\ started' = started + 1
  /\ reqs' = [reqs EXCEPT ![r] =
       [IdleReq EXCEPT
          !.pc = "find",
          !.auth = auth,
          !.completion =
            [userId |-> u, moduleId |-> m, cardId |-> p.cardId, stage |-> stage,
             learningType |-> lt, pointsEarned |-> p.pointsEarned,
             timeSpent |-> p.timeSpent, accuracy |-> p.accuracy,
             completedAt |-> UtcNow(t)]]]
  /\ UNCHANGED <<store, calls, last>>

\* find_one returns a document that holds the key: lines 80-89
FindCompleted(r) ==
  /\ reqs[r].pc = "find"
  /\ LET c == reqs[r].completion
         existing == FindOne(store, c.userId, c.moduleId)
     IN /\ existing # <<>>
        /\ AlreadyCompleted(existing[1], c)
        /\ Continue(r, Respond(reqs[r], 0, TRUE, "Stage already completed"))
  /\ UNCHANGED <<store, now, started>>

\* find_one returns a document without the key: lines 91-103, then the
\* handler awaits update_one
FindExisting(r, t) ==
  /\ reqs[r].pc = "find"
  /\ ReadClock(t)
  /\ LET c == reqs[r].completion
         existing == FindOne(store, c.userId, c.moduleId)
     IN /\ existing # <<>>
        /\ ~AlreadyCompleted(existing[1], c)
        /\ reqs' = [reqs EXCEPT ![r].pc = "update",
                                ![r].write = <<UpdateFields(existing[1], c, t)>>]
  /\ UNCHANGED <<store, started, calls, last>>

\* find_one returns None: lines 116-132, then the handler awaits insert_one
FindNone(r, t) ==
  /\ reqs[r].pc = "find"
  /\ ReadClock(t)
  /\ LET c == reqs[r].completion
     IN /\ FindOne(store, c.userId, c.moduleId) = <<>>
        /\ reqs' = [reqs EXCEPT ![r].pc = "insert",
                                ![r].write = <<NewProgress(c, t)>>]
  /\ UNCHANGED <<store, started, calls, last>>

\* After the write: lines 137-157 up to the find_one of line 152 when an
\* Authorization header came with the request, else the response
AfterWrite(q) ==
  IF q.auth THEN [q EXCEPT !.pc = "refind", !.write = <<>>] ELSE Success(q)

\* (the key is looked up again at the write: when it has been stored
\* meanwhile nothing is written and the call is answered as already
\* completed)
UpdateRechecked(r) ==
  /\ reqs[r].pc = "update"
  /\ LET c == reqs[r].completion
         existing == FindOne(store, c.userId, c.moduleId)
     IN IF existing # <<>> /\ AlreadyCompleted(existing[1], c)
        THEN /\ store' = store
             /\ Continue(r, Respond(reqs[r], 0, TRUE, "Stage already completed"))
        ELSE /\ store' = UpdateOne(store, c.userId, c.moduleId, reqs[r].write[1])
             /\ Continue(r, AfterWrite(reqs[r]))
  /\ UNCHANGED <<now, started>>

\* update_one (lines 104-114)
Update(r) ==
  /\ reqs[r].pc = "update"
  /\ LET c == reqs[r].completion
     IN store' = UpdateOne(store, c.userId, c.moduleId, reqs[r].write[1])
  /\ Continue(r, AfterWrite(reqs[r]))
  /\ UNCHANGED <<now, started>>

\* insert_one (line 133)
Insert(r) ==
  /\ reqs[r].pc = "insert"
  /\ store' = InsertOne(store, reqs[r].write[1])
  /\ Continue(r, AfterWrite(reqs[r]))
  /\ UNCHANGED <<now, started>>

\* find_one of line 152, then the loop up to its first post (line 200)
Refind(r) ==
  /\ reqs[r].pc = "refind"
  /\ LET c == reqs[r].completion
         current_progress == FindOne(store, c.userId, c.moduleId)
         completed_stages ==
           IF current_progress # <<>>
           THEN Get(current_progress[1], "completedStages", <<>>)
           ELSE <<>>
     IN Continue(r, Replay(reqs[r], completed_stages, 1))
  /\ UNCHANGED <<store, now, started>>

\* (a push that fails is sent once more)
PostReturnRetry(r, outcome) ==
  /\ reqs[r].pc = "post"
  /\ LET q == reqs[r]
         n == Len(q.pushed)
     IN IF outcome \in {"ok", "malformed"} \/ (n > 1 /\ q.pushed[n - 1] = q.pushed[n])
        THEN Continue(r, Replay([q EXCEPT !.synced_count = @ + 1],
                                q.completed_stages, q.stage_num + 1))
        ELSE Continue(r, [q EXCEPT !.pushed = Append(@, q.pushed[n])])
  /\ UNCHANGED <<store, now, started>>

\* (a push that fails sends the replay back to its first stage)
PostReturnRestart(r, outcome) ==
  /\ reqs[r].pc = "post"
  /\ IF outcome \in {"ok", "malformed"}
     THEN Continue(r, Replay([reqs[r] EXCEPT !.synced_count = @ + 1],
                             reqs[r].completed_stages, reqs[r].stage_num + 1))
     ELSE Continue(r, Replay([reqs[r] EXCEPT !.synced_count = 0, !.pushed = <<>>],
                             reqs[r].completed_stages, 1))
  /\ UNCHANGED <<store, now, started>>

\* (a push that fails ends the replay: the stages after it are not pushed)
PostReturnAbort(r, outcome) ==
  /\ reqs[r].pc = "post"
  /\ IF outcome \in {"ok", "malformed"}
     THEN Continue(r, Replay([reqs[r] EXCEPT !.synced_count = @ + 1],
                             reqs[r].completed_stages, reqs[r].stage_num + 1))
     ELSE Continue(r, Success(reqs[r]))
  /\ UNCHANGED <<store, now, started>>

\* The post of line 200 comes back (lines 202-210), then the loop goes on
\* to its next post or ends and the handler responds
PostReturn(r, outcome) ==
  /\ reqs[r].pc = "post"
  /\ LET q == [reqs[r] EXCEPT !.synced_count =
                 IF outcome \in {"ok", "malformed"} THEN @ + 1 ELSE @]
     IN Continue(r, Replay(q, q.completed_stages, q.stage_num + 1))
  /\ UNCHANGED <<store, now, started>>

Times == 0..MaxClock

\* A request arrives with a learning type of lts and, when auths holds
\* TRUE, possibly with an Authorization header
Arrive(r, lts, auths) ==
  \E u \in Users, m \in Modules, stage \in Stages, lt \in lts,
     p \in Payloads, auth \in auths, t \in Times :
    Start(r, u, m, stage, lt, p, auth, t)

\* The lookup and the write of a request: lines 75-133
Record(r) ==
  \/ FindCompleted(r)
  \/ \E t \in Times : FindExisting(r, t)
  \/ \E t \in Times : FindNone(r, t)
  \/ Update(r)
  \/ Insert(r)

\* The progressive replay of a request: lines 137-216
Sync(r) ==
  \/ Refind(r)
  \/ \E outcome \in Outcomes : PostReturn(r, outcome)

\* Requests in flight together: up to MaxInFlight handlers are suspended at
\* once and interleave at their awaits.  The replay writes nothing to the
\* store, so the requests of this specification come without a token and
\* for one learning type; it explores every interleaving of the lookups and
\* the writes.
Next ==
  \/ \E r \in Requests : Arrive(r, {"fill_blank"}, {FALSE})
  \/ \E r \in Requests : Record(r)

Spec == Init /\ [][Next]_vars

\* Requests one at a time: a request arrives only when no handler is
\* suspended; with and without a token, for every learning type.
ArriveAlone(r) ==
  /\ NumInFlight = 0
  /\ Arrive(r, LearningTypes, BOOLEAN)

NextSeq ==
  \/ \E r \in Requests : ArriveAlone(r)
  \/ \E r \in Requests : Record(r)
  \/ \E r \in Requests : Sync(r)

SpecSeq == Init /\ [][NextSeq]_vars

\* Requests with a token in flight together: every request is for the same
\* user, module and learning type and comes with an Authorization header, so
\* that the replay of one request interleaves with the lookups and writes
\* of another.
ArrivePush(r) ==
  \E stage \in Stages, p \in Payloads, t \in Times :
    Start(r, "u1", "m1", stage, "fill_blank", p, TRUE, t)

NextPush ==
  \/ \E r \in Requests : ArrivePush(r)
  \/ \E r \in Requests : Record(r)
  \/ \E r \in Requests : Sync(r)

SpecPush == Init /\ [][NextPush]_vars

\* The same requests when every post comes back: client.post is awaited
\* with timeout=10.0 (line 200), so each push of each request ends, with a
\* response or with an exception
SpecLive ==
  /\ Init
  /\ [][NextPush]_vars
  /\ \A r \in Requests : WF_vars(\E outcome \in Outcomes : PostReturn(r, outcome))

(* ------------------------- local store failures ------------------------ *)
\* HTTPException(status_code=500, detail=str(e)) of lines 225-227, for the
\* exception raised by the store operation e
InternalError(e) == [status_code |-> 500, detail |-> e]

\* The except of lines 225-227: the handler of request r ends with the
\* internal error for e.  No response of lines 84-89 or 219-224 is returned,
\* so the call is not counted in `calls`.
Raise(r, e) ==
  /\ reqs' = [reqs EXCEPT ![r] = DoneReq]
  /\ last' = <<[completion |-> reqs[r].completion, auth |-> reqs[r].auth,
                response |-> InternalError(e), pushed |-> reqs[r].pushed]>>
  /\ UNCHANGED calls

\* find_one of line 75 raises
FindFails(r) ==
  /\ reqs[r].pc = "find"
  /\ Raise(r, "find_one")
  /\ UNCHANGED <<store, now, started>>

\* update_one of line 104 or insert_one of line 133 raises: the operation
\* has written nothing
WriteFails(r) ==
  /\ reqs[r].pc \in {"update", "insert"}
  /\ Raise(r, IF reqs[r].pc = "update" THEN "update_one" ELSE "insert_one")
  /\ UNCHANGED <<store, now, started>>

\* (a failure of the read-back fails the request like the first lookup)
RefindFailsFatal(r) ==
  /\ reqs[r].pc = "refind"
  /\ Raise(r, "find_one")
  /\ UNCHANGED <<store, now, started>>

\* find_one of line 152 raises: the except of line 215 logs it, no push is
\* made and the handler responds (lines 219-224)
RefindFails(r) ==
  /\ reqs[r].pc = "refind"
  /\ Continue(r, Success(reqs[r]))
  /\ UNCHANGED <<store, now, started>>

\* An operation on the local store raises
Fail(r) ==
  \/ FindFails(r)
  \/ WriteFails(r)
  \/ RefindFails(r)

\* Requests with a token in flight together, with a local store whose
\* operations may fail
NextFail ==
  \/ \E r \in Requests : ArrivePush(r)
  \/ \E r \in Requests : Record(r)
  \/ \E r \in Requests : Sync(r)
  \/ \E r \in Requests : Fail(r)

SpecFail == Init /\ [][NextFail]_vars

(* --------------------------- read operations --------------------------- *)
\* The read handlers are request handlers like save_stage_completion: a
\* read request takes the next request number, and its handler is a record
\* of its own locals.  `last` is cleared when a read request arrives and
\* holds the handler and its response once it is answered.

\* documents that a store given as input to get-progress, get-all-progress
\* and get-stats holds at most
MaxDocs == 2

\* What a GET can come back with: one of the outcomes of a request to the
\* remote and, for 200 with JSON, the parsed body
Replies(bodies) ==
  {[outcome |-> o, body |-> <<>>] : o \in Outcomes \ {"ok"}}
    \cup {[outcome |-> "ok", body |-> <<b>>] : b \in bodies}

\* The remote call made for url, with what it came back with
Fetched(url, reply) ==
  [url |-> url, outcome |-> reply.outcome, body |-> reply.body]

\* bool(d) of a dict
Truthy(d) == DOMAIN d # {}

\* A read request arrives; its handler sets reqs[r] to its locals
Accept(r) ==
  /\ r = started + 1
  /\ r <= MaxRequests
  /\ NumInFlight < MaxInFlight
  /\ started' = started + 1
  /\ last' = <<>>
  /\ UNCHANGED <<store, now, calls>>

\* The read handler q of request r returns its JSONResponse
Answer(r, q, response) ==
  /\ reqs' = [reqs EXCEPT ![r] = DoneReq]
  /\ last' = <<[handler |-> q, response |-> response]>>
  /\ UNCHANGED <<now, started, calls>>

\* The completion of stage `stage` with the submission p, completed at `at`
Completion(u, m, stage, lt, p, at) ==
  [userId |-> u, moduleId |-> m, cardId |-> p.cardId, stage |-> stage,
   learningType |-> lt, pointsEarned |-> p.pointsEarned,
   timeSpent |-> p.timeSpent, accuracy |-> p.accuracy, completedAt |-> at]

\* The record doc after save_stage_completion has added completion c to it
Written(doc, c, clock) ==
  UpdateOne(<<doc>>, doc.userId, doc.moduleId, UpdateFields(doc, c, clock))[1]

\* The sequences of at most n elements of S
SeqsUpTo(S, n) == UNION {[1..k -> S] : k \in 0..n}

\* The store and the clock are given; no request has arrived
InitWith(stores, times) ==
  /\ store \in stores
  /\ now \in times
  /\ reqs = [r \in Requests |-> IdleReq]
  /\ started = 0
  /\ calls = <<>>
  /\ last = <<>>

(* get_user_progress: GET /progress/{userId}/{moduleId} *)
\* A stage record of the remote: it differs from every local one
RemoteStage ==
  [cardId |-> "c9", pointsEarned |-> 7, completedAt |-> <<0, "+00:00">>,
   timeSpent |-> 9, accuracy |-> 9]

\* The bodies the remote answers get-progress with: the empty object, and
\* records with none, one or two stages, of which stage 1 of fill_blank may
\* also be stored locally and stage 3 of verbal is not
RemoteProgress ==
  {<<>>} \cup
  {[completedStages |-> [k \in K |-> RemoteStage],
    totalPoints |-> 7, highestStage |-> 3] :
     K \in {{}, {ProgressKey(1, "fill_blank")},
            {ProgressKey(1, "fill_blank"), ProgressKey(3, "verbal")}}}

\* (a key of both sides keeps the local value)
MergedStagesLocalFirst(web_stages, local_stages) ==
  [k \in DOMAIN web_stages \cup DOMAIN local_stages |->
     IF k \in DOMAIN local_stages THEN local_stages[k] ELSE web_stages[k]]

\* web_stages after the loop of lines 743-748
MergedStages(web_stages, local_stages) ==
  [k \in DOMAIN web_stages \cup DOMAIN local_stages |->
     IF k \in DOMAIN web_stages THEN web_stages[k] ELSE local_stages[k]]

\* The local record as it is returned (lines 753-755): lastAccessed becomes
\* its ISO text.  The _id that the database gives a document, returned as a
\* string, is left out of the stored documents and of the responses.
JsonProgress(doc) == [doc EXCEPT !.lastAccessed = IsoFormat(@)]

\* (a default view that starts at stage 0)
DefaultProgressZero(userId, moduleId) ==
  [userId |-> userId, moduleId |-> moduleId, completedStages |-> <<>>,
   totalPoints |-> DefaultTotalPoints, highestStage |-> 0,
   lastAccessed |-> <<>>]

\* The view of lines 759-766; lastAccessed None is <<>>
DefaultProgress(userId, moduleId) ==
  [userId |-> userId, moduleId |-> moduleId, completedStages |-> <<>>,
   totalPoints |-> DefaultTotalPoints, highestStage |-> DefaultHighestStage,
   lastAccessed |-> <<>>]

\* Lines 737-766: web_progress and local_progress are None (<<>>) or hold
\* one value
MergedProgress(web_progress, local_progress, userId, moduleId) ==
  IF web_progress # <<>> /\ Truthy(web_progress[1])
  THEN IF local_progress # <<>>
       THEN DictSet(web_progress[1], "completedStages",
                    MergedStages(Get(web_progress[1], "completedStages", <<>>),
                                 Get(local_progress[1], "completedStages", <<>>)))
       ELSE web_progress[1]
  ELSE IF local_progress # <<>>
       THEN JsonProgress(local_progress[1])
       ELSE DefaultProgress(userId, moduleId)

\* The request arrives and the handler awaits the GET of line 718
GetProgress(r, u, m) ==
  /\ Accept(r)
  /\ reqs' = [reqs EXCEPT ![r] =
       [pc |-> "progress_get", userId |-> u, moduleId |-> m,
        web_progress |-> <<>>, fetched |-> <<>>]]

\* The GET comes back (lines 722-727): the body of a 200 is kept, anything
\* else leaves web_progress None; the handler awaits find_one (line 731)
ProgressGet(r, reply) ==
  /\ reqs[r].pc = "progress_get"
  /\ reqs' = [reqs EXCEPT
       ![r].pc = "progress_find",
       ![r].web_progress = IF reply.outcome = "ok" THEN reply.body ELSE <<>>,
       ![r].fetched = Append(@, Fetched("progress", reply))]
  /\ UNCHANGED <<store, now, started, calls, last>>

\* (the merged view is written back to the local record)
ProgressFindWriteBack(r) ==
  /\ reqs[r].pc = "progress_find"
  /\ LET q == reqs[r]
         local_progress == FindOne(store, q.userId, q.moduleId)
         merged_progress ==
           MergedProgress(q.web_progress, local_progress, q.userId, q.moduleId)
     IN /\ Answer(r, q, merged_progress)
        /\ store' =
             IF local_progress # <<>> /\ q.web_progress # <<>>
             THEN UpdateOne(store, q.userId, q.moduleId,
                            [completedStages |-> merged_progress.completedStages])
             ELSE store

\* find_one returns and the merged view is the response (lines 731-766)
ProgressFind(r) ==
  /\ reqs[r].pc = "progress_find"
  /\ LET q == reqs[r]
     IN Answer(r, q, MergedProgress(q.web_progress,
                                    FindOne(store, q.userId, q.moduleId),
                                    q.userId, q.moduleId))
  /\ UNCHANGED store

(* get_all_user_progress: GET /progress/{userId}/all *)
\* The request arrives and the handler awaits the cursor of line 405
GetAllProgress(r, u) ==
  /\ Accept(r)
  /\ reqs' = [reqs EXCEPT ![r] = [pc |-> "all_find", userId |-> u]]

\* progress_list of lines 406-412: the user's documents in store order
ProgressList(s, userId) ==
  LET docs == SelectSeq(s, LAMBDA doc : doc.userId = userId)
  IN [i \in 1..Len(docs) |-> JsonProgress(docs[i])]

AllFind(r) ==
  /\ reqs[r].pc = "all_find"
  /\ Answer(r, reqs[r], [progress |-> ProgressList(store, reqs[r].userId)])
  /\ UNCHANGED store

\* The submissions of Payloads
Submission(cardId) == CHOOSE p \in Payloads : p.cardId = cardId

\* The records save_stage_completion leaves for (u, m1) after stage 1 of
\* fill_blank, after stage 2 of verbal, and after both
ProgressDocs(u) ==
  LET first == Completion(u, "m1", 1, "fill_blank", Submission("c1"), UtcNow(0))
      second == Completion(u, "m1", 2, "verbal", Submission("c2"), UtcNow(0))
  IN {NewProgress(first, 0), NewProgress(second, 0),
      Written(NewProgress(first, 0), second, 0)}

\* The stores get-progress is applied to: up to MaxDocs records of the
\* users (two records of one pair are what concurrent first requests leave)
ProgressStores == SeqsUpTo(UNION {ProgressDocs(u) : u \in Users}, MaxDocs)

InitProgress == InitWith(ProgressStores, {0})

NextProgress ==
  \/ \E r \in Requests, u \in Users, m \in Modules : GetProgress(r, u, m)
  \/ \E r \in Requests, reply \in Replies(RemoteProgress) : ProgressGet(r, reply)
  \/ \E r \in Requests : ProgressFind(r)
  \/ \E r \in Requests, u \in Users : GetAllProgress(r, u)
  \/ \E r \in Requests : AllFind(r)

SpecProgress == InitProgress /\ [][NextProgress]_vars

(* get_user_progress for any JSON body of the remote *)
\* response.json() of line 723 gives whatever JSON value the body holds: an
\* object (a dict), an array (a list) or null (None)
JsonObject(d) == [json |-> "object", fields |-> d]
JsonArray(l) == [json |-> "array", items |-> l]
JsonNull == [json |-> "null"]

\* The bodies of a 200: the objects of RemoteProgress, the arrays [] and
\* ["x"], and null
JsonBodies ==
  {JsonObject(d) : d \in RemoteProgress}
    \cup {JsonArray(l) : l \in {<<>>, <<"x">>}}
    \cup {JsonNull}

\* bool(j) of line 737
JsonTruthy(j) ==
  CASE j.json = "object" -> Truthy(j.fields)
    [] j.json = "array" -> Len(j.items) > 0
    [] j.json = "null" -> FALSE

\* JSONResponse(content) of lines 750, 756 and 759
Ok(content) == [status_code |-> 200, content |-> content]

\* The GET comes back (lines 722-727): the handler awaits find_one
ProgressGetJson(r, reply) ==
  /\ reqs[r].pc = "progress_get"
  /\ reqs' = [reqs EXCEPT
       ![r].pc = "progress_find",
       ![r].web_progress = IF reply.outcome = "ok" THEN reply.body ELSE <<>>,
       ![r].fetched = Append(@, Fetched("progress", reply))]
  /\ UNCHANGED <<store, now, started, calls, last>>

\* Lines 737-769.  With a truthy web_progress and a local record, line 744
\* calls web_progress.get, which only a dict has: for a list it raises
\* AttributeError, which the except of line 767 turns into a 500.  Without
\* a local record the truthy web_progress is returned as it is.
ProgressResponse(web_progress, local_progress, userId, moduleId) ==
  IF web_progress # <<>> /\ JsonTruthy(web_progress[1])
  THEN IF local_progress # <<>>
       THEN IF web_progress[1].json = "object"
            THEN Ok(JsonObject(MergedProgress(<<web_progress[1].fields>>,
                                              local_progress, userId, moduleId)))
            ELSE InternalError("AttributeError")
       ELSE Ok(web_progress[1])
  ELSE Ok(JsonObject(MergedProgress(<<>>, local_progress, userId, moduleId)))

\* find_one returns and the handler responds (lines 731-769)
ProgressFindJson(r) ==
  /\ reqs[r].pc = "progress_find"
  /\ LET q == reqs[r]
     IN Answer(r, q, ProgressResponse(q.web_progress,
                                      FindOne(store, q.userId, q.moduleId),
                                      q.userId, q.moduleId))
  /\ UNCHANGED store

NextProgressJson ==
  \/ \E r \in Requests, u \in Users, m \in Modules : GetProgress(r, u, m)
  \/ \E r \in Requests, reply \in Replies(JsonBodies) : ProgressGetJson(r, reply)
  \/ \E r \in Requests : ProgressFindJson(r)

SpecProgressJson == InitProgress /\ [][NextProgressJson]_vars

(* get_user_stats: GET /progress/{userId}/stats *)
\* web_stats of line 314; rank None is <<>>
DefaultWebStats == [totalPoints |-> 0, weeklyPoints |-> 0, rank |-> <<>>]

\* The bodies the remote answers the stats GET with: an object without
\* points, and points with a total of 0 or 70 and a weekly value of 0 or 7
RemoteStats ==
  {<<>>} \cup
  {[points |-> [total |-> total, weekly |-> weekly, rank |-> <<>>]] :
     total \in {0, 70}, weekly \in {0, 7}}

\* The bodies the remote answers the leaderboard GET of get_user_stats
\* with: an empty array, and an array that ranks u1
RankBoards ==
  {[leaderboard |-> <<>>],
   [leaderboard |-> <<[userId |-> "u1", rank |-> 1, totalPoints |-> 70]>>]}

\* web_stats of lines 330-334
WebStats(web_data) ==
  [totalPoints |-> Get(Get(web_data, "points", <<>>), "total", 0),
   weeklyPoints |-> Get(Get(web_data, "points", <<>>), "weekly", 0),
   rank |-> Get(Get(web_data, "points", <<>>), "rank", <<>>)]

\* The rank after the loop of lines 349-353: that of the first entry of
\* the user, or the one held before
RankIn(leaderboard, userId, rank) ==
  LET hits == {i \in 1..Len(leaderboard) : leaderboard[i].userId = userId}
  IN IF hits = {} THEN rank
     ELSE <<leaderboard[CHOOSE i \in hits : \A j \in hits : i <= j].rank>>

\* datetime.fromisoformat(text): aware when the text carries an offset
FromIsoFormat(text) == [t |-> text[1], aware |-> text[2] # ""]

\* Lines 374-384 for one stage record: one_week_ago is an aware datetime,
\* and comparing a naive datetime with it raises TypeError, which line 382
\* catches: the record is then left out
CountedThisWeek(stage_data, clock) ==
  LET completed_date == FromIsoFormat(stage_data.completedAt)
  IN /\ completed_date.aware
     /\ completed_date.t >= clock - WeekDays

\* The weekly points of the stage records of one document
RECURSIVE WeeklyOfStages(_, _)
WeeklyOfStages(completed_stages, clock) ==
  IF DOMAIN completed_stages = {} THEN 0
  ELSE LET k == CHOOSE x \in DOMAIN completed_stages : TRUE
           rest == [x \in DOMAIN completed_stages \ {k} |-> completed_stages[x]]
       IN (IF CountedThisWeek(completed_stages[k], clock)
           THEN Get(completed_stages[k], "pointsEarned", 0) ELSE 0)
          + WeeklyOfStages(rest, clock)

\* local_total_points and local_weekly_points after the loop of lines
\* 368-384 over the documents docs
RECURSIVE LocalTotalPoints(_)
LocalTotalPoints(docs) ==
  IF docs = <<>> THEN 0
  ELSE Get(Head(docs), "totalPoints", 0) + LocalTotalPoints(Tail(docs))

RECURSIVE LocalWeeklyPoints(_, _)
LocalWeeklyPoints(docs, clock) ==
  IF docs = <<>> THEN 0
  ELSE WeeklyOfStages(Get(Head(docs), "completedStages", <<>>), clock)
       + LocalWeeklyPoints(Tail(docs), clock)

\* (the remote value is used whatever it is)
OrFirst(a, b) == a

\* a or b, for numbers: b when a is 0
Or(a, b) == IF a # 0 THEN a ELSE b

\* The response of lines 386-396
UserStats(web_stats, docs, clock, userId) ==
  [totalPoints |-> Or(web_stats.totalPoints, LocalTotalPoints(docs)),
   weeklyPoints |-> Or(web_stats.weeklyPoints, LocalWeeklyPoints(docs, clock)),
   rank |-> web_stats.rank,
   userId |-> userId]

\* The request arrives and the handler awaits the GET of line 322
GetStats(r, u) ==
  /\ Accept(r)
  /\ reqs' = [reqs EXCEPT ![r] =
       [pc |-> "stats_get", userId |-> u,
        web_stats |-> DefaultWebStats, fetched |-> <<>>]]

\* The stats GET comes back (lines 327-334).  A transport error, or a 200
\* whose body is not JSON, raises to line 357 and the leaderboard GET is
\* not made; otherwise the handler awaits the leaderboard GET (line 341)
StatsGet(r, reply) ==
  /\ reqs[r].pc = "stats_get"
  /\ reqs' = [reqs EXCEPT
       ![r].pc = IF reply.outcome \in {"error", "malformed"}
                 THEN "stats_find" ELSE "stats_rank",
       ![r].web_stats = IF reply.outcome = "ok" THEN WebStats(reply.body[1]) ELSE @,
       ![r].fetched = Append(@, Fetched("stats", reply))]
  /\ UNCHANGED <<store, now, started, calls, last>>

\* The leaderboard GET comes back (lines 346-354); the handler awaits the
\* cursor of line 362
StatsRank(r, reply) ==
  /\ reqs[r].pc = "stats_rank"
  /\ reqs' = [reqs EXCEPT
       ![r].pc = "stats_find",
       ![r].web_stats.rank =
         IF reply.outcome = "ok"
         THEN RankIn(Get(reply.body[1], "leaderboard", <<>>), reqs[r].userId, @)
         ELSE @,
       ![r].fetched = Append(@, Fetched("leaderboard", reply))]
  /\ UNCHANGED <<store, now, started, calls, last>>

\* The cursor returns the user's documents and the statistics are the
\* response (lines 362-396); datetime.now is the clock as it stands
StatsFind(r) ==
  /\ reqs[r].pc = "stats_find"
  /\ LET q == reqs[r]
         docs == SelectSeq(store, LAMBDA doc : doc.userId = q.userId)
     IN Answer(r, q, UserStats(q.web_stats, docs, now, q.userId))
  /\ UNCHANGED store

\* The instants a completion is submitted with: completedAt is naive when
\* it is left to its default or sent without an offset, and aware when the
\* client sends it with an offset
CompletedAts == [t : Times, aware : BOOLEAN]

\* Submissions of 15 and of 30 points
StatsSubmission(points) ==
  [cardId |-> "c1", pointsEarned |-> points, timeSpent |-> 30, accuracy |-> 95]

\* The records save_stage_completion leaves for (u, m) after one stage
StatsDocs(u, m) ==
  {NewProgress(Completion(u, m, 1, "fill_blank", StatsSubmission(points), at), at.t) :
     points \in {15, 30}, at \in CompletedAts}

\* The records it leaves for (u1, m1) after two stages
StatsDocsTwoStages ==
  {Written(NewProgress(Completion("u1", "m1", 1, "fill_blank",
                                  StatsSubmission(15), first), first.t),
           Completion("u1", "m1", 2, "fill_blank", StatsSubmission(30), second),
           second.t) :
     first \in CompletedAts, second \in CompletedAts}

\* The stores get-stats is applied to: up to MaxDocs one-stage records of
\* u1 (for the modules m1 and m2) and of u2, or one two-stage record of u1
StatsStores ==
  SeqsUpTo(StatsDocs("u1", "m1") \cup StatsDocs("u1", "m2") \cup StatsDocs("u2", "m1"),
           MaxDocs)
    \cup {<<doc>> : doc \in StatsDocsTwoStages}

\* The clock stands a week or more after the first completion
InitStats == InitWith(StatsStores, {WeekDays + t : t \in Times})

NextStats ==
  \/ \E r \in Requests, u \in Users : NumInFlight = 0 /\ GetStats(r, u)
  \/ \E r \in Requests, reply \in Replies(RemoteStats) : StatsGet(r, reply)
  \/ \E r \in Requests, reply \in Replies(RankBoards) : StatsRank(r, reply)
  \/ \E r \in Requests : StatsFind(r)

SpecStats == InitStats /\ [][NextStats]_vars

(* get_mobile_leaderboard: GET /proxy/mobile/leaderboard *)
\* documents that a store given as input to get-leaderboard holds at most
MaxRanked == 4

\* find().to_list(length): the first `length` documents
ToList(s, length) == SubSeq(s, 1, IF Len(s) <= length THEN Len(s) ELSE length)

\* (a further record of a user replaces the user's total)
AddTotalOverwrite(user_totals, progress) ==
  LET at == {i \in 1..Len(user_totals) : user_totals[i][1] = progress.userId}
  IN IF at # {}
     THEN [i \in 1..Len(user_totals) |->
             IF i \in at
             THEN <<progress.userId, Get(progress, "totalPoints", 0)>>
             ELSE user_totals[i]]
     ELSE Append(user_totals, <<progress.userId, Get(progress, "totalPoints", 0)>>)

\* user_totals, as the sequence of its items (a dict keeps its keys in the
\* order of their first insertion), after lines 655-661 for one document
AddTotal(user_totals, progress) ==
  LET user_id == progress.userId
      total_points == Get(progress, "totalPoints", 0)
      at == {i \in 1..Len(user_totals) : user_totals[i][1] = user_id}
  IN IF at # {}
     THEN [i \in 1..Len(user_totals) |->
             IF i \in at
             THEN <<user_id, user_totals[i][2] + total_points>>
             ELSE user_totals[i]]
     ELSE Append(user_totals, <<user_id, total_points>>)

\* user_totals.items() after the loop of lines 654-661
RECURSIVE UserTotals(_)
UserTotals(all_progress) ==
  IF all_progress = <<>> THEN <<>>
  ELSE AddTotal(UserTotals(SubSeq(all_progress, 1, Len(all_progress) - 1)),
                all_progress[Len(all_progress)])

\* (an item goes before the items of the same total)
InsertDescendingBeforeEqual(sorted, item) ==
  LET n == Cardinality({i \in 1..Len(sorted) : sorted[i][2] > item[2]})
  IN SubSeq(sorted, 1, n) \o <<item>> \o SubSeq(sorted, n + 1, Len(sorted))

\* sorted(..., key=total, reverse=True) is a stable sort: an item goes after
\* the items of a greater or the same total that come before it
InsertDescending(sorted, item) ==
  LET n == Cardinality({i \in 1..Len(sorted) : sorted[i][2] >= item[2]})
  IN SubSeq(sorted, 1, n) \o <<item>> \o SubSeq(sorted, n + 1, Len(sorted))

\* sorted_users of line 664
RECURSIVE SortedUsers(_)
SortedUsers(items) ==
  IF items = <<>> THEN <<>>
  ELSE InsertDescending(SortedUsers(SubSeq(items, 1, Len(items) - 1)),
                        items[Len(items)])

\* The response of lines 650-682; None is <<>>
LocalLeaderboard(s) ==
  LET sorted_users == SortedUsers(UserTotals(ToList(s, LeaderboardScanLimit)))
  IN [leaderboard |->
        [rank \in 1..Len(sorted_users) |->
           [userId |-> sorted_users[rank][1],
            rank |-> rank,
            totalPoints |-> sorted_users[rank][2],
            name |-> <<>>,
            email |-> <<>>]],
      source |-> "local"]

\* The bodies the remote answers the leaderboard GET with: an object
\* without leaderboard, an empty array, and an array of one entry
RemoteBoards ==
  {<<>>,
   [leaderboard |-> <<>>],
   [leaderboard |-> <<[userId |-> "u9", rank |-> 1, totalPoints |-> 70]>>]}

\* What the leaderboard GET can come back with: also 200 with a blank text
BoardReplies ==
  Replies(RemoteBoards) \cup {[outcome |-> "empty", body |-> <<>>]}

\* (any leaderboard array of a 200 is used, also an empty one)
RemoteUsableAnyArray(reply) ==
  /\ reply.outcome = "ok"
  /\ "leaderboard" \in DOMAIN reply.body[1]

\* Lines 638-640: a 200 with a text that is JSON and holds a leaderboard
\* array that is not empty
RemoteUsable(reply) ==
  /\ reply.outcome = "ok"
  /\ Len(Get(reply.body[1], "leaderboard", <<>>)) > 0

\* The request arrives and the handler awaits the GET of line 630; the
\* timeframe is part of the URL only
GetLeaderboard(r) ==
  /\ Accept(r)
  /\ reqs' = [reqs EXCEPT ![r] = [pc |-> "leaderboard_get", fetched |-> <<>>]]

\* The GET comes back: the remote body is the response (line 642), or the
\* handler awaits the scan of line 650
LeaderboardGet(r, reply) ==
  /\ reqs[r].pc = "leaderboard_get"
  /\ LET q == [reqs[r] EXCEPT !.fetched = Append(@, Fetched("leaderboard", reply))]
     IN IF RemoteUsable(reply)
        THEN Answer(r, q, reply.body[1])
        ELSE /\ reqs' = [reqs EXCEPT ![r] = [q EXCEPT !.pc = "leaderboard_find"]]
             /\ UNCHANGED <<now, started, calls, last>>
  /\ UNCHANGED store

\* The scan returns and the local leaderboard is the response
LeaderboardFind(r) ==
  /\ reqs[r].pc = "leaderboard_find"
  /\ Answer(r, reqs[r], LocalLeaderboard(store))
  /\ UNCHANGED store

\* The users with a stored record, in the order they first submitted
BoardUsers == <<"u1", "u2", "u3", "u4">>

\* The record save_stage_completion leaves for a first stage worth 10, 20 or
\* 30 points of user u in module m
BoardDocs(u, m) ==
  {NewProgress(Completion(u, m, 1, "fill_blank",
                          [cardId |-> "c1", pointsEarned |-> points,
                           timeSpent |-> 30, accuracy |-> 95],
                          UtcNow(0)), 0) :
     points \in {10, 20, 30}}

\* The stores of n records get-leaderboard is applied to: the i-th record
\* is for module i of a user, and the users appear for the first time in
\* the order of BoardUsers
RECURSIVE BoardsOf(_)
BoardsOf(n) ==
  IF n = 0 THEN {<<>>}
  ELSE UNION {
         LET met == Cardinality({s[j].userId : j \in 1..Len(s)})
             users == 1..(IF met < Len(BoardUsers) THEN met + 1 ELSE met)
         IN {Append(s, doc) :
               doc \in UNION {BoardDocs(BoardUsers[u], "m" \o ToString(n)) :
                                u \in users}} :
         s \in BoardsOf(n - 1)}

LeaderboardStores == UNION {BoardsOf(n) : n \in 0..MaxRanked}

InitLeaderboard == InitWith(LeaderboardStores, {0})

NextLeaderboard ==
  \/ \E r \in Requests : GetLeaderboard(r)
  \/ \E r \in Requests, reply \in BoardReplies : LeaderboardGet(r, reply)
  \/ \E r \in Requests : LeaderboardFind(r)

SpecLeaderboard == InitLeaderboard /\ [][NextLeaderboard]_vars

(* the operations together *)
\* What the remote answers a read of (u1, m1) with when it answers 200: a
\* progress record of two stages, statistics of 70 and 7 points, and a
\* leaderboard of one entry
SomeProgress ==
  {b \in RemoteProgress :
     Truthy(b) /\ Cardinality(DOMAIN b.completedStages) = 2}
SomeStats ==
  {b \in RemoteStats :
     Truthy(b) /\ b.points.total = 70 /\ b.points.weekly = 7}
SomeRank == {b \in RankBoards : b.leaderboard # <<>>}
SomeBoard == {b \in RemoteBoards : Truthy(b) /\ b.leaderboard # <<>>}

\* The steps of the read handlers of request r, for the user and module of
\* ArrivePush
Read(r) ==
  \/ GetProgress(r, "u1", "m1")
  \/ \E reply \in Replies(SomeProgress) : ProgressGet(r, reply)
  \/ ProgressFind(r)
  \/ GetAllProgress(r, "u1")
  \/ AllFind(r)
  \/ GetStats(r, "u1")
  \/ \E reply \in Replies(SomeStats) : StatsGet(r, reply)
  \/ \E reply \in Replies(SomeRank) : StatsRank(r, reply)
  \/ StatsFind(r)
  \/ GetLeaderboard(r)
  \/ \E reply \in Replies(SomeBoard) : LeaderboardGet(r, reply)
  \/ LeaderboardFind(r)

\* Saves with a token and reads in flight together, from the empty store
NextAll ==
  \/ \E r \in Requests : ArrivePush(r)
  \/ \E r \in Requests : Record(r)
  \/ \E r \in Requests : Sync(r)
  \/ \E r \in Requests : Read(r)

SpecAll == Init /\ [][NextAll]_vars

(* sync_all_progress_to_web: POST /progress/{userId}/sync-all *)
\* stage_data.get("timeSpent", 10)
SyncAllDefaultTimeSpent == 10

\* int(stage_key.split('-')[0]) of lines 255-256: the text before the first
\* "-" of f"{stage}-{learningType}" is the digits of a stage that is not
\* negative, and is empty for a negative stage, whose text starts with "-";
\* int('') raises ValueError
KeyParses(stage_key) == stage_key[1] >= 0

\* stage_num and learning_type of lines 256-257, for a key that parses:
\* '-'.join(parts[1:]) is the whole text after the first "-"
ParsedStage(stage_key) == stage_key[1]
ParsedLearningType(stage_key) == stage_key[2]

\* payload of lines 273-281
SyncAllPayload(module_id, stage_key, stage_data) ==
  [moduleId |-> module_id,
   cardId |-> Get(stage_data, "cardId", module_id),
   learningType |-> LearningTypeFormatted(ParsedLearningType(stage_key)),
   stage |-> ParsedStage(stage_key),
   timeSpent |-> Get(stage_data, "timeSpent", SyncAllDefaultTimeSpent),
   passed |-> TRUE,
   accuracy |-> Get(stage_data, "accuracy", DefaultAccuracy)]

\* The orders in which the keys K can be listed
Orders(K) ==
  {o \in [1..Cardinality(K) -> K] : \A i, j \in DOMAIN o : o[i] = o[j] => i = j}

\* completed_stages.items() of one document (lines 248-252), its keys in
\* the order o
DocItems(doc, o) ==
  [i \in DOMAIN o |->
     [moduleId |-> doc.moduleId, stage_key |-> o[i],
      stage_data |-> doc.completedStages[o[i]]]]

\* The items the two loops of lines 247 and 252 go through: document by
\* document in store order, the keys of a document in the order of its
\* dict, which the model of the store does not keep: any order
RECURSIVE ItemLists(_)
ItemLists(docs) ==
  IF docs = <<>> THEN {<<>>}
  ELSE {DocItems(Head(docs), o) \o rest :
          o \in Orders(DOMAIN Head(docs).completedStages),
          rest \in ItemLists(Tail(docs))}

\* JSONResponse of lines 235-238
Unauthorized ==
  [status_code |-> 401, success |-> FALSE,
   message |-> "Authorization token required"]

\* JSONResponse of lines 298-304
SyncAllResponse(q) ==
  [status_code |-> 200, success |-> TRUE, synced |-> q.synced_count,
   failed |-> q.failed_count, syncedStages |-> q.synced_stages,
   message |-> <<"Synced", q.synced_count, "stages to web API">>]

\* (an item that cannot be parsed ends the loops)
SyncAllLoopStopsAtUnparsable(r, q, from) ==
  IF from > Len(q.items)
  THEN Answer(r, q, SyncAllResponse(q))
  ELSE IF KeyParses(q.items[from].stage_key)
       THEN /\ reqs' = [reqs EXCEPT ![r] =
                 [q EXCEPT !.pc = "syncall_post",
                           !.index = from,
                           !.pushed = Append(@, SyncAllPayload(q.items[from].moduleId,
                                                               q.items[from].stage_key,
                                                               q.items[from].stage_data))]]
            /\ UNCHANGED <<now, started, calls, last>>
       ELSE Answer(r, [q EXCEPT !.failed_count = @ + 1],
                   SyncAllResponse([q EXCEPT !.failed_count = @ + 1]))

\* The loops from item `from` on, up to the next await: an item whose key
\* does not parse raises before the post and is counted as failed (lines
\* 294-296); the next item that parses is posted (line 286); after the
\* last item the handler responds.
SyncAllLoop(r, q, from) ==
  LET P == {i \in from..Len(q.items) : KeyParses(q.items[i].stage_key)}
  IN IF P = {}
     THEN LET end == [q EXCEPT !.failed_count = @ + (Len(q.items) - from + 1)]
          IN Answer(r, end, SyncAllResponse(end))
     ELSE LET n == CHOOSE i \in P : \A j \in P : i <= j
              item == q.items[n]
          IN /\ reqs' = [reqs EXCEPT ![r] =
                  [q EXCEPT !.pc = "syncall_post",
                            !.index = n,
                            !.failed_count = @ + (n - from),
                            !.pushed = Append(@, SyncAllPayload(item.moduleId,
                                                                item.stage_key,
                                                                item.stage_data))]]
             /\ UNCHANGED <<now, started, calls, last>>

\* A request without an Authorization header arrives and is answered at
\* once (lines 233-238)
SyncAllUnauthorized(r, u) ==
  /\ r = started + 1
  /\ r <= MaxRequests
  /\ started' = started + 1
  /\ reqs' = [reqs EXCEPT ![r] = DoneReq]
  /\ last' = <<[handler |-> [pc |-> "syncall_auth", userId |-> u, pushed |-> <<>>],
                response |-> Unauthorized]>>
  /\ UNCHANGED <<store, now, calls>>

\* A request with an Authorization header arrives: the handler awaits the
\* first document of the cursor (lines 241-247).  pushed and outcomes are
\* history: the payloads posted and what each post came back with
SyncAll(r, u) ==
  /\ Accept(r)
  /\ reqs' = [reqs EXCEPT ![r] =
       [pc |-> "syncall_find", userId |-> u, items |-> <<>>, index |-> 0,
        synced_count |-> 0, failed_count |-> 0, synced_stages |-> <<>>,
        pushed |-> <<>>, outcomes |-> <<>>]]

\* The cursor returns the user's documents, which all come in its first
\* batch, and the loops run up to their first post
SyncAllFind(r) ==
  /\ reqs[r].pc = "syncall_find"
  /\ \E items \in ItemLists(SelectSeq(store, LAMBDA doc : doc.userId = reqs[r].userId)) :
       SyncAllLoop(r, [reqs[r] EXCEPT !.items = items], 1)
  /\ UNCHANGED store

\* The post of line 286 comes back: status 200 counts as synced whatever
\* the body (it is not parsed), another status and an exception count as
\* failed (lines 287-296); then the loops go on
SyncAllPost(r, outcome) ==
  /\ reqs[r].pc = "syncall_post"
  /\ LET q == reqs[r]
         item == q.items[q.index]
     IN SyncAllLoop(r,
          IF outcome \in {"ok", "malformed"}
          THEN [q EXCEPT !.synced_count = @ + 1,
                         !.synced_stages = Append(@, <<item.moduleId, item.stage_key>>),
                         !.outcomes = Append(@, outcome)]
          ELSE [q EXCEPT !.failed_count = @ + 1,
                         !.outcomes = Append(@, outcome)],
          q.index + 1)
  /\ UNCHANGED store

\* The records save_stage_completion leaves for u: stage 1 of fill_blank;
\* with stage 2 of word_cloud added; with a stage of number -1, which a
\* request may carry (stage is any int), added to these; and stage 3 of a
\* learning type outside the map
SyncDocs(u) ==
  LET first == NewProgress(Completion(u, "m1", 1, "fill_blank", Submission("c1"), UtcNow(0)), 0)
      second == Written(first, Completion(u, "m1", 2, "word_cloud", Submission("c2"), UtcNow(0)), 0)
      third == Written(second, Completion(u, "m1", -1, "verbal", Submission("c1"), UtcNow(0)), 0)
      other == NewProgress(Completion(u, "m1", 3, "flashcard", Submission("c2"), UtcNow(0)), 0)
  IN {first, second, third, other}

SyncStores == SeqsUpTo(UNION {SyncDocs(u) : u \in Users}, MaxDocs)

InitSyncAll == InitWith(SyncStores, {0})

\* sync-all requests one at a time, with and without a token
NextSyncAll ==
  \/ \E r \in Requests, u \in Users : NumInFlight = 0 /\ SyncAllUnauthorized(r, u)
  \/ \E r \in Requests, u \in Users : NumInFlight = 0 /\ SyncAll(r, u)
  \/ \E r \in Requests : SyncAllFind(r)
  \/ \E r \in Requests, outcome \in Outcomes : SyncAllPost(r, outcome)

SpecSyncAll == InitSyncAll /\ [][NextSyncAll]_vars

(* the replay over stored records of any shape *)
\* The StageRecords a stored record may hold for a stage: the one written
\* by lines 93-99 (here for a submission worth no points), and the older
\* shape that the comment of line 61 describes, {points, completedAt},
\* without cardId, timeSpent and accuracy
StoredShapes ==
  {StageRecord(Completion("u1", "m1", 1, "fill_blank", Submission("c2"), UtcNow(0))),
   [pointsEarned |-> 100, completedAt |-> IsoFormat(UtcNow(0))]}

\* The records of (u1, m1) that hold StageRecords of these shapes for the
\* stages 1 and 2 of fill_blank, or for one of them
ReplayDocs ==
  {[userId |-> "u1", moduleId |-> "m1", completedStages |-> cs,
    totalPoints |-> IF \E k \in DOMAIN cs : cs[k].pointsEarned = 100
                    THEN IF \A k \in DOMAIN cs : cs[k].pointsEarned = 100
                         THEN 100 * Cardinality(DOMAIN cs) ELSE 100
                    ELSE 0,
    highestStage |-> IF ProgressKey(2, "fill_blank") \in DOMAIN cs THEN 2 ELSE 1,
    lastAccessed |-> UtcNow(0)] :
     cs \in UNION {[K -> StoredShapes] :
                     K \in (SUBSET {ProgressKey(1, "fill_blank"),
                                    ProgressKey(2, "fill_blank")}) \ {{}}}}

ReplayStores == {<<>>} \cup {<<doc>> : doc \in ReplayDocs}

InitReplay == InitWith(ReplayStores, {0})

\* A save request with a token arrives for (u1, m1, fill_blank)
ArriveReplay(r) ==
  \E stage \in Stages, p \in Payloads :
    Start(r, "u1", "m1", stage, "fill_blank", p, TRUE, now)

\* Saves with a token, one request at a time, on these stores
NextReplay ==
  \/ \E r \in Requests : NumInFlight = 0 /\ ArriveReplay(r)
  \/ \E r \in Requests : Record(r)
  \/ \E r \in Requests : Sync(r)

SpecReplay == InitReplay /\ [][NextReplay]_vars

(* learning types *)
\* The three learning types of the map and one outside it
AllLearningTypes == {"fill_blank", "word_cloud", "verbal", "flashcard"}

\* A save request with a token arrives for (u1, m1), for any learning type
ArriveTyped(r) ==
  \E stage \in Stages, lt \in AllLearningTypes, t \in Times :
    Start(r, "u1", "m1", stage, lt, Submission("c1"), TRUE, t)

\* Saves and sync-alls with a token for u1, one request at a time, from the
\* empty store
NextTypes ==
  \/ \E r \in Requests : NumInFlight = 0 /\ ArriveTyped(r)
  \/ \E r \in Requests : Record(r)
  \/ \E r \in Requests : Sync(r)
  \/ \E r \in Requests : NumInFlight = 0 /\ SyncAll(r, "u1")
  \/ \E r \in Requests : SyncAllFind(r)
  \/ \E r \in Requests, outcome \in Outcomes : SyncAllPost(r, outcome)

SpecTypes == Init /\ [][NextTypes]_vars

(* ------------------------------ properties ----------------------------- *)
\* The documents of the pair (u, m), by position in the collection
DocsOf(u, m) ==
  {i \in 1..Len(store) : store[i].userId = u /\ store[i].moduleId = m}

\* No handler is suspended: every accepted request has been answered
Quiescent == NumInFlight = 0

\* The key of stage s for the learning type of completion c is held by a
\* stored record of c's pair
Stored(c, s) ==
  \E i \in DocsOf(c.userId, c.moduleId) :
    <<s, c.learningType>> \in DOMAIN store[i].completedStages

RECURSIVE SumPoints(_)
SumPoints(cs) ==
  IF DOMAIN cs = {} THEN 0
  ELSE LET k == CHOOSE x \in DOMAIN cs : TRUE
       IN cs[k].pointsEarned + SumPoints([x \in DOMAIN cs \ {k} |-> cs[x]])

\* The points submitted by the first answered call of each of the keys K
RECURSIVE SumFirst(_)
SumFirst(K) ==
  IF K = {} THEN 0
  ELSE LET k == CHOOSE x \in K : TRUE
       IN calls[k].pointsEarned + SumFirst(K \ {k})

CalledFor(u, m) == {k \in DOMAIN calls : k[1] = u /\ k[2] = m}

\* C1: with calls one at a time, the first call for a (userId, moduleId,
\* stage, learningType) is awarded its pointsEarned with alreadyCompleted
\* false, every later call for it gets 0 points with alreadyCompleted true,
\* and the record's totalPoints is the sum, over the keys submitted, of the
\* points of the first call alone.
C1_Idempotent ==
  (Quiescent /\ last # <<>>) =>
    LET c == last[1].completion
        resp == last[1].response
    IN /\ IF calls[CallKey(c)].n = 1
          THEN resp.pointsAwarded = c.pointsEarned /\ ~resp.alreadyCompleted
          ELSE resp.pointsAwarded = 0 /\ resp.alreadyCompleted
       /\ \A u \in Users, m \in Modules :
            IF CalledFor(u, m) = {}
            THEN DocsOf(u, m) = {}
            ELSE /\ Cardinality(DocsOf(u, m)) = 1
                 /\ \A i \in DocsOf(u, m) :
                      store[i].totalPoints = SumFirst(CalledFor(u, m))

\* A 100-point submission has been sent at least twice, the last call was
\* answered as already completed, and the record's total is 100
C1_Witness ==
  /\ Quiescent
  /\ last # <<>>
  /\ last[1].response.alreadyCompleted
  /\ last[1].completion.pointsEarned = 100
  /\ calls[CallKey(last[1].completion)].n >= 2
  /\ calls[CallKey(last[1].completion)].pointsEarned = 100
  /\ \E i \in DocsOf(last[1].completion.userId, last[1].completion.moduleId) :
       store[i].totalPoints = 100

\* C2: a call whose key is already in the stored record leaves the store as
\* it is (StageRecord, totalPoints, highestStage, lastAccessed), is answered
\* at once with 0 points and alreadyCompleted, and makes no push, with or
\* without a token and whatever the resubmitted event carries.
C2_ResubmissionIsNoOp ==
  [][\A r \in Requests :
       (/\ reqs[r].pc = "find"
        /\ Stored(reqs[r].completion, reqs[r].completion.stage)
        /\ reqs'[r] # reqs[r])
       => /\ store' = store
          /\ reqs'[r].pc = "done"
          /\ last' = <<[completion |-> reqs[r].completion,
                        auth |-> reqs[r].auth,
                        response |-> [success |-> TRUE, pointsAwarded |-> 0,
                                      message |-> "Stage already completed",
                                      alreadyCompleted |-> TRUE],
                        pushed |-> <<>>]>>]_vars

\* A resubmission with a token, another card, other points, at a later time
\* than the record was last written, has been answered
C2_Witness ==
  /\ last # <<>>
  /\ last[1].response.alreadyCompleted
  /\ last[1].auth
  /\ LET c == last[1].completion
     IN \E i \in DocsOf(c.userId, c.moduleId) :
          /\ <<c.stage, c.learningType>> \in DOMAIN store[i].completedStages
          /\ LET rec == store[i].completedStages[<<c.stage, c.learningType>>]
             IN /\ rec.cardId # c.cardId
                /\ rec.pointsEarned # c.pointsEarned
                /\ rec.timeSpent # c.timeSpent
                /\ rec.accuracy # c.accuracy
          /\ store[i].lastAccessed.t < c.completedAt.t

\* C3: the store holds at most one record per (userId, moduleId).
C3_OneRecordPerPair ==
  \A i, j \in 1..Len(store) :
    (store[i].userId = store[j].userId /\ store[i].moduleId = store[j].moduleId)
      => i = j

\* C4: every stored record's totalPoints is the sum of the pointsEarned of
\* its completedStages.
C4_TotalIsSumOfStages ==
  \A i \in 1..Len(store) :
    store[i].totalPoints = SumPoints(store[i].completedStages)

\* A record with three stages, two of them worth 100 points
C4_Witness ==
  \E i \in 1..Len(store) :
    /\ Cardinality(DOMAIN store[i].completedStages) = 3
    /\ store[i].totalPoints = 200

\* C5: every stored record's highestStage is at least the stage of each of
\* its keys.
C5_HighestCoversKeys ==
  \A i \in 1..Len(store) :
    \A k \in DOMAIN store[i].completedStages : store[i].highestStage >= k[1]

\* A lower stage has been recorded after a higher one: the request answered
\* last stored a stage below the record's highestStage
C5_Witness ==
  /\ last # <<>>
  /\ ~last[1].response.alreadyCompleted
  /\ LET c == last[1].completion
     IN \E i \in DocsOf(c.userId, c.moduleId) :
          /\ <<c.stage, c.learningType>> \in DOMAIN store[i].completedStages
          /\ store[i].highestStage > c.stage

\* C6: a key that a stored record holds stays in it with the same
\* StageRecord in every later state.
C6_KeyWrittenOnce ==
  [][\A i \in 1..Len(store) :
       \A k \in DOMAIN store[i].completedStages :
         /\ k \in DOMAIN store'[i].completedStages
         /\ store'[i].completedStages[k] = store[i].completedStages[k]]_vars

\* C7: a stored record's totalPoints never decreases.
C7_TotalPointsMonotone ==
  [][\A i \in 1..Len(store) :
       store'[i].totalPoints >= store[i].totalPoints]_vars

\* The highest stage among the keys of the pair (u, m) that a call has been
\* answered for
MaxStageCalled(u, m) ==
  CHOOSE s \in {k[3] : k \in CalledFor(u, m)} :
    \A k \in CalledFor(u, m) : s >= k[3]

\* C8: a stored record's highestStage never decreases, and once every
\* request is answered it is the highest stage completed for the record.
C8_HighestStageMonotone ==
  /\ [][\A i \in 1..Len(store) :
          store'[i].highestStage >= store[i].highestStage]_vars
  /\ [](Quiescent =>
          \A i \in 1..Len(store) :
            store[i].highestStage = MaxStageCalled(store[i].userId, store[i].moduleId))

\* The stages of the pushes made by the request answered last
PushedStages == [i \in 1..Len(last[1].pushed) |-> last[1].pushed[i].stage]

\* The request answered last recorded a new key and came with a token
LastRecordedWithToken ==
  /\ Quiescent
  /\ last # <<>>
  /\ last[1].auth
  /\ ~last[1].response.alreadyCompleted

\* C9: a call with a token that records stage n while the stages 1..n-1 of
\* the same learning type are stored makes exactly n pushes, for the stages
\* 1, 2, ..., n in this order.
C9_ReplayInOrder ==
  LastRecordedWithToken =>
    LET c == last[1].completion
    IN (\A s \in 1..(c.stage - 1) : Stored(c, s))
         => PushedStages = [i \in 1..c.stage |-> i]

\* Stage 3 has been recorded on top of the stored stages 1 and 2, with the
\* pushes 1, 2, 3
C9_Witness ==
  /\ LastRecordedWithToken
  /\ last[1].completion.stage = 3
  /\ Stored(last[1].completion, 1)
  /\ Stored(last[1].completion, 2)
  /\ PushedStages = <<1, 2, 3>>

\* C10, as claimed: every stage 1..n is pushed, and a prior stage without a
\* stored StageRecord is pushed with timeSpent 60 and accuracy 100.
C10_FullChainReplayed ==
  LastRecordedWithToken =>
    LET c == last[1].completion
    IN /\ PushedStages = [i \in 1..c.stage |-> i]
       /\ \A s \in 1..(c.stage - 1) :
            ~Stored(c, s) =>
              /\ last[1].pushed[s].timeSpent = DefaultTimeSpent
              /\ last[1].pushed[s].accuracy = DefaultAccuracy

\* The record of stage s for the learning type of completion c
StoredRecord(c, s) ==
  LET i == CHOOSE x \in DocsOf(c.userId, c.moduleId) :
             <<s, c.learningType>> \in DOMAIN store[x].completedStages
  IN store[i].completedStages[<<s, c.learningType>>]

\* C10, amended: the pushes are those for stage n and for the prior stages
\* that have a stored StageRecord, in ascending order; a prior stage without
\* one is skipped, and a prior stage's push carries the stored card, time
\* and accuracy.
C10_StoredStagesReplayed ==
  LastRecordedWithToken =>
    LET c == last[1].completion
        pushed == last[1].pushed
        S == {s \in 1..c.stage : s = c.stage \/ Stored(c, s)}
    IN /\ Len(pushed) = Cardinality(S)
       /\ {pushed[i].stage : i \in 1..Len(pushed)} = S
       /\ \A i, j \in 1..Len(pushed) : i < j => pushed[i].stage < pushed[j].stage
       /\ \A i \in 1..Len(pushed) :
            pushed[i].stage < c.stage =>
              LET rec == StoredRecord(c, pushed[i].stage)
              IN /\ pushed[i].cardId = rec.cardId
                 /\ pushed[i].timeSpent = rec.timeSpent
                 /\ pushed[i].accuracy = rec.accuracy
                 /\ pushed[i].passed

\* Stage 3 has been recorded with stage 1 stored and stage 2 missing: the
\* pushes are those of the stages 1 and 3
C10_Witness ==
  /\ LastRecordedWithToken
  /\ last[1].completion.stage = 3
  /\ Stored(last[1].completion, 1)
  /\ ~Stored(last[1].completion, 2)
  /\ PushedStages = <<1, 3>>

\* C11: the replay of a request that recorded a new key never touches the
\* store, and whatever a push comes back with (success, a body that is not
\* JSON, another status, a timeout or transport error) the next stored stage
\* is pushed; after the last push the call is answered with success,
\* pointsAwarded = pointsEarned and alreadyCompleted false.
C11_RemoteNeverMatters ==
  [][\A r \in Requests :
       (reqs[r].pc \in {"refind", "post"} /\ reqs'[r] # reqs[r])
       => /\ store' = store
          /\ LET c == reqs[r].completion
                 rest == {s \in (reqs[r].stage_num + 1)..c.stage :
                            s = c.stage \/ Stored(c, s)}
             IN IF rest = {}
                THEN /\ reqs'[r].pc = "done"
                     /\ last' = <<[completion |-> c,
                                   auth |-> TRUE,
                                   response |->
                                     [success |-> TRUE,
                                      pointsAwarded |-> c.pointsEarned,
                                      message |-> "Progress saved successfully",
                                      alreadyCompleted |-> FALSE],
                                   pushed |-> reqs[r].pushed]>>
                ELSE /\ reqs'[r].pc = "post"
                     /\ reqs'[r].stage_num \in rest
                     /\ \A s \in rest : reqs'[r].stage_num <= s
                     /\ Len(reqs'[r].pushed) = Len(reqs[r].pushed) + 1]_vars

\* The pushes of the stages 1 and 2 have both failed and the push of stage 3
\* has been sent
C11_Witness ==
  \E r \in Requests :
    /\ reqs[r].pc = "post"
    /\ reqs[r].stage_num = 3
    /\ Len(reqs[r].pushed) = 3
    /\ reqs[r].synced_count = 0

ProgressAnswered ==
  /\ last # <<>>
  /\ "handler" \in DOMAIN last[1]
  /\ last[1].handler.pc = "progress_find"

\* What the remote answered the get-progress answered last with
ProgressReply == last[1].handler.fetched[1]

\* The remote progress of the get-progress answered last is present: a 200
\* with a record
RemotePresent ==
  /\ ProgressReply.outcome = "ok"
  /\ DOMAIN ProgressReply.body[1] # {}

\* The stored records of the pair of the get-progress answered last
LocalDocs == DocsOf(last[1].handler.userId, last[1].handler.moduleId)

\* The local record of the pair: the first one stored
LocalDoc == store[CHOOSE i \in LocalDocs : \A j \in LocalDocs : i <= j]

\* C13: with the remote progress present, get-progress returns the remote
\* record with the remote keys plus the local keys absent from the remote;
\* a key of both carries the remote value, a local-only key the local value,
\* and totalPoints and highestStage are the remote's.
C13_MergeFillsGaps ==
  (ProgressAnswered /\ RemotePresent) =>
    LET web == ProgressReply.body[1]
        response == last[1].response
        local_stages == IF LocalDocs = {} THEN <<>> ELSE LocalDoc.completedStages
    IN /\ DOMAIN response = DOMAIN web
       /\ response.totalPoints = web.totalPoints
       /\ response.highestStage = web.highestStage
       /\ DOMAIN response.completedStages
            = DOMAIN web.completedStages \cup DOMAIN local_stages
       /\ \A k \in DOMAIN response.completedStages :
            response.completedStages[k] =
              IF k \in DOMAIN web.completedStages
              THEN web.completedStages[k]
              ELSE local_stages[k]

\* The remote holds stage 1 of fill_blank and stage 3 of verbal, the local
\* record stage 1 of fill_blank and stage 2 of verbal: the response holds
\* the three keys
C13_Witness ==
  /\ ProgressAnswered
  /\ RemotePresent
  /\ LocalDocs # {}
  /\ DOMAIN ProgressReply.body[1].completedStages
       = {<<1, "fill_blank">>, <<3, "verbal">>}
  /\ DOMAIN LocalDoc.completedStages = {<<1, "fill_blank">>, <<2, "verbal">>}
  /\ DOMAIN last[1].response.completedStages
       = {<<1, "fill_blank">>, <<2, "verbal">>, <<3, "verbal">>}
  /\ last[1].response.completedStages[<<1, "fill_blank">>].cardId = "c9"
  /\ last[1].response.completedStages[<<2, "verbal">>].cardId = "c2"

\* C15: with the remote progress absent (the GET failed, was not answered
\* with 200, or its body was not JSON or was empty), get-progress returns
\* the local record of the pair as it is stored, its lastAccessed as ISO
\* text, when there is one, and otherwise the default view with no stages,
\* 0 points, highest stage 1 and no lastAccessed.
C15_LocalOrDefault ==
  (ProgressAnswered /\ ~RemotePresent) =>
    LET response == last[1].response
    IN IF LocalDocs # {}
       THEN /\ DOMAIN response = DOMAIN LocalDoc
            /\ \A f \in DOMAIN LocalDoc \ {"lastAccessed"} :
                 response[f] = LocalDoc[f]
            /\ response.lastAccessed = <<LocalDoc.lastAccessed.t, "">>
       ELSE response = [userId |-> last[1].handler.userId,
                        moduleId |-> last[1].handler.moduleId,
                        completedStages |-> <<>>,
                        totalPoints |-> 0,
                        highestStage |-> 1,
                        lastAccessed |-> <<>>]

\* The GET failed and the response is the local record with its two stages
C15_Witness ==
  /\ ProgressAnswered
  /\ ProgressReply.outcome = "error"
  /\ LocalDocs # {}
  /\ Cardinality(DOMAIN LocalDoc.completedStages) = 2
  /\ last[1].response.completedStages = LocalDoc.completedStages
  /\ last[1].response.totalPoints = 100

\* The request answered last is a get-stats
StatsAnswered ==
  /\ last # <<>>
  /\ "handler" \in DOMAIN last[1]
  /\ last[1].handler.pc = "stats_find"

\* The value of field f of the points the remote answered the get-stats
\* answered last with; 0 when the GET failed or the body holds none
RemotePoints(f) ==
  LET reply == last[1].handler.fetched[1]
  IN IF reply.outcome = "ok" /\ "points" \in DOMAIN reply.body[1]
     THEN reply.body[1].points[f]
     ELSE 0

\* The stored records of the user of the get-stats answered last
StatsDocsOf == {i \in 1..Len(store) : store[i].userId = last[1].handler.userId}

RECURSIVE SumTotals(_)
SumTotals(I) ==
  IF I = {} THEN 0
  ELSE LET i == CHOOSE x \in I : TRUE
       IN store[i].totalPoints + SumTotals(I \ {i})

\* C16: get-stats returns, for totalPoints and for weeklyPoints each on its
\* own, the remote value when it is not 0 and else the local value; the
\* local total is the sum of totalPoints over the user's stored records.
C16_RemoteOrLocal ==
  StatsAnswered =>
    LET response == last[1].response
        docs == SelectSeq(store, LAMBDA doc : doc.userId = last[1].handler.userId)
    IN /\ response.totalPoints =
            IF RemotePoints("total") # 0
            THEN RemotePoints("total") ELSE SumTotals(StatsDocsOf)
       /\ response.weeklyPoints =
            IF RemotePoints("weekly") # 0
            THEN RemotePoints("weekly") ELSE LocalWeeklyPoints(docs, now)

\* The remote answered with a total of 0 and a weekly value of 7, the user
\* has two records of 15 and 30 points: the response has 45 and 7
C16_Witness ==
  /\ StatsAnswered
  /\ last[1].handler.fetched[1].outcome = "ok"
  /\ RemotePoints("total") = 0
  /\ RemotePoints("weekly") = 7
  /\ Cardinality(StatsDocsOf) = 2
  /\ last[1].response.totalPoints = 45
  /\ last[1].response.weeklyPoints = 7

\* The points of the stage records of the documents I completed at or
\* after the instant `cutoff`
RECURSIVE SumSince(_, _)
SumSince(I, cutoff) ==
  IF I = {} THEN 0
  ELSE LET i == CHOOSE x \in I : TRUE
           recent == [k \in {x \in DOMAIN store[i].completedStages :
                               store[i].completedStages[x].completedAt[1] >= cutoff}
                        |-> store[i].completedStages[k]]
       IN SumPoints(recent) + SumSince(I \ {i}, cutoff)

\* C17: the local weekly points are the sum of pointsEarned over the user's
\* stage records completed at or after now - 7 days: a record completed
\* exactly 7 days ago counts, one a day older does not.
C17_WeeklySinceCutoff ==
  (StatsAnswered /\ RemotePoints("weekly") = 0) =>
    last[1].response.weeklyPoints = SumSince(StatsDocsOf, now - WeekDays)

\* The request answered last is a get-leaderboard
LeaderboardAnswered ==
  /\ last # <<>>
  /\ "handler" \in DOMAIN last[1]
  /\ last[1].handler.pc \in {"leaderboard_get", "leaderboard_find"}

\* The stored records of user u, by position, and the first of them
RecordsOf(u) == {i \in 1..Len(store) : store[i].userId = u}
FirstOf(u) == CHOOSE i \in RecordsOf(u) : \A j \in RecordsOf(u) : i <= j

\* C18: the local leaderboard lists every user with a stored record once,
\* with the sum of the totalPoints of the user's records, by descending
\* total, users of the same total in the order they are first met in the
\* store, and the ranks are 1..N in list order.
C18_LeaderboardOrder ==
  (LeaderboardAnswered /\ last[1].handler.pc = "leaderboard_find") =>
    LET board == last[1].response.leaderboard
    IN /\ {board[i].userId : i \in 1..Len(board)}
            = {store[i].userId : i \in 1..Len(store)}
       /\ \A i \in 1..Len(board) :
            /\ board[i].rank = i
            /\ board[i].totalPoints = SumTotals(RecordsOf(board[i].userId))
       /\ \A i, j \in 1..Len(board) :
            i < j =>
              \/ board[i].totalPoints > board[j].totalPoints
              \/ /\ board[i].totalPoints = board[j].totalPoints
                 /\ FirstOf(board[i].userId) < FirstOf(board[j].userId)

\* The records of u1, u2, u3, u4 hold 30, 10, 30, 20 points: the local
\* leaderboard is u1: 1, u3: 2, u4: 3, u2: 4 with 30, 30, 20, 10 points
C18_Witness ==
  /\ LeaderboardAnswered
  /\ last[1].handler.pc = "leaderboard_find"
  /\ [i \in 1..Len(store) |-> <<store[i].userId, store[i].totalPoints>>]
       = <<(<<"u1", 30>>), (<<"u2", 10>>), (<<"u3", 30>>), (<<"u4", 20>>)>>
  /\ [i \in 1..Len(last[1].response.leaderboard) |->
        <<last[1].response.leaderboard[i].userId,
          last[1].response.leaderboard[i].rank,
          last[1].response.leaderboard[i].totalPoints>>]
       = <<(<<"u1", 1, 30>>), (<<"u3", 2, 30>>), (<<"u4", 3, 20>>), (<<"u2", 4, 10>>)>>

\* What the remote answered the get-leaderboard answered last with
BoardReply == last[1].handler.fetched[1]

\* C19: get-leaderboard returns the remote body, without a scan of the
\* store, when the remote answers 200 with a leaderboard array that is not
\* empty; on a transport failure, another status, a blank or malformed
\* body, or an empty or missing array, it returns the leaderboard built
\* from the store, marked source = local.
C19_LocalOnlyWithoutRemote ==
  LeaderboardAnswered =>
    IF /\ BoardReply.outcome = "ok"
       /\ "leaderboard" \in DOMAIN BoardReply.body[1]
       /\ BoardReply.body[1].leaderboard # <<>>
    THEN /\ last[1].handler.pc = "leaderboard_get"
         /\ last[1].response = BoardReply.body[1]
    ELSE /\ last[1].handler.pc = "leaderboard_find"
         /\ last[1].response.source = "local"
         /\ Len(last[1].response.leaderboard)
              = Cardinality({store[i].userId : i \in 1..Len(store)})

\* The remote answered 200 with an empty array and the response is the
\* local leaderboard of two users
C19_Witness ==
  /\ LeaderboardAnswered
  /\ BoardReply.outcome = "ok"
  /\ "leaderboard" \in DOMAIN BoardReply.body[1]
  /\ BoardReply.body[1].leaderboard = <<>>
  /\ last[1].response.source = "local"
  /\ Len(last[1].response.leaderboard) = 2

\* The positions of the handler of save_stage_completion
SavePcs == {"find", "update", "insert", "refind", "post"}

\* C14: the store changes only by the update_one or insert_one of a
\* save_stage_completion: no step of get-progress, get-stats,
\* get-all-progress or get-leaderboard (arrival, remote reply, store read,
\* response) changes it, and the merged view of get-progress is not
\* written back.
C14_ReadsLeaveStore ==
  [][/\ store' # store =>
         \E r \in Requests :
           /\ reqs[r].pc \in {"update", "insert"}
           /\ reqs'[r] # reqs[r]
     /\ \A r \in Requests :
          (reqs'[r] # reqs[r] /\ reqs[r].pc \notin SavePcs /\ reqs'[r].pc \notin SavePcs)
            => store' = store]_vars

\* A get-progress has been answered with the remote stage 3 of verbal
\* merged into the stages of the local record, which still lacks it
C14_Witness ==
  /\ ProgressAnswered
  /\ RemotePresent
  /\ LocalDocs # {}
  /\ <<3, "verbal">> \in DOMAIN last[1].response.completedStages
  /\ DOMAIN LocalDoc.completedStages \subseteq DOMAIN last[1].response.completedStages
  /\ <<3, "verbal">> \notin DOMAIN LocalDoc.completedStages

\* No two elements of the sequence s have the same value of field f
Once(s, f) == \A i, j \in 1..Len(s) : s[i][f] = s[j][f] => i = j

\* C20: no remote call is made twice within a request: the pushes of a
\* save are for different stages, whatever the pushes came back with, and
\* the GETs of a read are for different URLs.
C20_NoRetry ==
  /\ \A r \in Requests :
       /\ reqs[r].pc \in SavePcs => Once(reqs[r].pushed, "stage")
       /\ (InFlight(r) /\ reqs[r].pc \notin SavePcs /\ "fetched" \in DOMAIN reqs[r])
            => Once(reqs[r].fetched, "url")
  /\ last # <<>> =>
       IF "handler" \in DOMAIN last[1]
       THEN "fetched" \in DOMAIN last[1].handler
              => Once(last[1].handler.fetched, "url")
       ELSE Once(last[1].pushed, "stage")

\* A get-stats has been answered after both of its GETs failed, and a save
\* has sent the push of stage 2 after the push of stage 1 failed
C20_Witness ==
  /\ StatsAnswered
  /\ Len(last[1].handler.fetched) = 2
  /\ last[1].handler.fetched[1].outcome = "non200"
  /\ last[1].handler.fetched[2].outcome = "error"
  /\ \E r \in Requests :
       /\ reqs[r].pc = "post"
       /\ Len(reqs[r].pushed) = 2
       /\ reqs[r].synced_count = 0

\* C21: a request that has passed the already-completed check (it is
\* suspended at its write) and whose key has been stored meanwhile by
\* another request still writes and is answered with alreadyCompleted false
\* and pointsAwarded = pointsEarned: two requests for one key that both pass
\* the check before either writes are both awarded.
C21_BothAwarded ==
  [][\A r \in Requests :
       (/\ reqs[r].pc \in {"update", "insert"}
        /\ Stored(reqs[r].completion, reqs[r].completion.stage)
        /\ reqs'[r].pc = "done")
       => /\ last' # <<>>
          /\ last'[1].completion = reqs[r].completion
          /\ ~last'[1].response.alreadyCompleted
          /\ last'[1].response.pointsAwarded = reqs[r].completion.pointsEarned
          /\ calls'[CallKey(reqs[r].completion)].n
               = calls[CallKey(reqs[r].completion)].n + 1]_vars

\* Two calls for one key have been answered, the first and the second each
\* with the 100 points submitted and alreadyCompleted false
C21_Witness ==
  /\ last # <<>>
  /\ ~last[1].response.alreadyCompleted
  /\ last[1].response.pointsAwarded = 100
  /\ calls[CallKey(last[1].completion)].n = 2
  /\ calls[CallKey(last[1].completion)].pointsEarned = 100
  /\ calls[CallKey(last[1].completion)].pointsAwarded = 100

\* The stages of the pushes in ps are strictly increasing
Ascending(ps) ==
  \A i, j \in 1..Len(ps) : i < j => ps[i].stage < ps[j].stage

\* C22: the pushes of one request are made one after the other in
\* ascending stage order, whatever the store holds and whatever other
\* requests do: a request suspended at a post has exactly its latest push
\* in flight, a push is started only by the read-back or by the return of
\* the request's previous push and one at a time, the stages pushed are
\* strictly increasing, and the last push is the one for the event's stage.
C22_SequentialAscending ==
  /\ [](\A r \in Requests :
          reqs[r].pc = "post" =>
            /\ reqs[r].pushed # <<>>
            /\ reqs[r].pushed[Len(reqs[r].pushed)].stage = reqs[r].stage_num
            /\ reqs[r].stage_num <= reqs[r].completion.stage
            /\ Ascending(reqs[r].pushed))
  /\ [][\A r \in Requests :
          Len(reqs'[r].pushed) > Len(reqs[r].pushed) =>
            /\ reqs[r].pc \in {"refind", "post"}
            /\ reqs'[r].pc = "post"
            /\ reqs'[r].pushed = Append(reqs[r].pushed,
                                        reqs'[r].pushed[Len(reqs'[r].pushed)])]_vars
  /\ []((last # <<>> /\ last[1].auth /\ ~last[1].response.alreadyCompleted) =>
          /\ last[1].pushed # <<>>
          /\ Ascending(last[1].pushed)
          /\ last[1].pushed[Len(last[1].pushed)].stage = last[1].completion.stage)

\* Two requests are replaying at the same time, one of them at its third
\* push, for stage 3, after those for the stages 1 and 2
C22_Witness ==
  \E r1, r2 \in Requests :
    /\ r1 # r2
    /\ reqs[r1].pc = "post"
    /\ reqs[r2].pc = "post"
    /\ Len(reqs[r1].pushed) = 3
    /\ reqs[r1].stage_num = 3

\* The internal errors of save_stage_completion
InternalErrors == {InternalError(e) : e \in {"find_one", "update_one", "insert_one"}}

\* C23: a request is answered either with its success response or with the
\* internal error 500; it is answered with the error exactly by a step in
\* which its lookup or its write fails, that step leaves the store as it is
\* and the request has made no push; a request that has written, whatever
\* happens to its read-back or to its pushes, is answered with success.
C23_OnlyStoreFailureFails ==
  [][\A r \in Requests :
       (InFlight(r) /\ reqs'[r].pc = "done") =>
         /\ last' # <<>>
         /\ last'[1].completion = reqs[r].completion
         /\ IF last'[1].response \in InternalErrors
            THEN /\ reqs[r].pc \in {"find", "update", "insert"}
                 /\ store' = store
                 /\ calls' = calls
                 /\ reqs[r].pushed = <<>>
                 /\ last'[1].pushed = <<>>
            ELSE /\ last'[1].response.success
                 /\ calls'[CallKey(reqs[r].completion)].n
                      = (IF CallKey(reqs[r].completion) \in DOMAIN calls
                         THEN calls[CallKey(reqs[r].completion)].n ELSE 0) + 1]_vars

\* The write of a request has failed while another request was suspended:
\* it is answered with the internal error, and its key is not stored
C23_Witness ==
  /\ last # <<>>
  /\ last[1].response = InternalError("update_one")
  /\ ~Stored(last[1].completion, last[1].completion.stage)
  /\ DocsOf(last[1].completion.userId, last[1].completion.moduleId) # {}
  /\ ~Quiescent

\* C24: whatever the remote answers (a transport error, another status, a
\* body that is not JSON, any JSON value), get-progress is answered with a
\* progress view and never with an internal error.
C24_NeverInternalError ==
  \A i \in 1..Len(last) :
    last[i].handler.pc = "progress_find" => last[i].response.status_code = 200

\* The sync-all request answered last, when it came with a token
SyncAllAnswered ==
  /\ last # <<>>
  /\ "handler" \in DOMAIN last[1]
  /\ last[1].handler.pc \in {"syncall_find", "syncall_post"}

\* The StageRecords of user u: the positions of u's documents with each of
\* their keys
StageRecordsOf(u) ==
  {ik \in (1..Len(store))
            \X UNION {DOMAIN store[d].completedStages : d \in 1..Len(store)} :
     /\ store[ik[1]].userId = u
     /\ ik[2] \in DOMAIN store[ik[1]].completedStages}

\* The item of the StageRecord ik
ItemOf(ik) ==
  [moduleId |-> store[ik[1]].moduleId, stage_key |-> ik[2],
   stage_data |-> store[ik[1]].completedStages[ik[2]]]

\* The items went through are the StageRecords of the user, each once
ItemsAreStageRecords(q) ==
  /\ Len(q.items) = Cardinality(StageRecordsOf(q.userId))
  /\ \A ik \in StageRecordsOf(q.userId) :
       Cardinality({j \in 1..Len(q.items) : q.items[j] = ItemOf(ik)})
         = Cardinality({x \in StageRecordsOf(q.userId) : ItemOf(x) = ItemOf(ik)})

\* What sync-all reports, for the request answered last: synced + failed
\* is the number of StageRecords, syncedStages lists the pushes answered
\* 200 in their order, and a request without a token made no push and was
\* answered 401
SyncAllReport ==
  /\ SyncAllAnswered =>
       LET q == last[1].handler
           resp == last[1].response
           ok == {j \in 1..Len(q.pushed) : q.outcomes[j] \in {"ok", "malformed"}}
       IN /\ resp.status_code = 200 /\ resp.success
          /\ ItemsAreStageRecords(q)
          /\ Len(q.outcomes) = Len(q.pushed)
          /\ resp.synced + resp.failed = Cardinality(StageRecordsOf(q.userId))
          /\ resp.synced = Cardinality(ok)
          /\ Len(resp.syncedStages) = Cardinality(ok)
          /\ \A n \in 1..Len(resp.syncedStages) :
               \E j \in ok :
                 /\ Cardinality({x \in ok : x <= j}) = n
                 /\ resp.syncedStages[n][1] = q.pushed[j].moduleId
                 /\ resp.syncedStages[n][2][1] = q.pushed[j].stage
                 /\ LearningTypeFormatted(resp.syncedStages[n][2][2])
                      = q.pushed[j].learningType
  /\ (last # <<>> /\ last[1].handler.pc = "syncall_auth") =>
       /\ last[1].response = Unauthorized
       /\ last[1].handler.pushed = <<>>

\* The payloads of the items of q whose keys satisfy Pushed, in their order
PayloadsOf(q, Pushed(_)) ==
  LET sel == SelectSeq(q.items, LAMBDA item : Pushed(item.stage_key))
  IN [j \in 1..Len(sel) |->
        SyncAllPayload(sel[j].moduleId, sel[j].stage_key, sel[j].stage_data)]

\* C30, as claimed: sync-all with a token makes exactly one push for every
\* StageRecord of the user, reports synced + failed = that number and lists
\* the pushes answered 200; the store is left unchanged; without a token no
\* push is made and the answer is 401.
C30_OnePushPerStageRecord ==
  /\ [](SyncAllAnswered =>
          /\ Len(last[1].handler.pushed) = Cardinality(StageRecordsOf(last[1].handler.userId))
          /\ Len(last[1].handler.pushed) = Len(last[1].handler.items))
  /\ []SyncAllReport
  /\ [][store' = store]_vars

\* C30, amended: sync-all with a token makes exactly one push for every
\* StageRecord of the user whose key parses; a StageRecord whose key does
\* not parse is counted as failed without a push, and the items after it
\* are still gone through; synced + failed = the number of StageRecords,
\* syncedStages lists the pushes answered 200; the store is left unchanged;
\* without a token no push is made and the answer is 401.
C30_OnePushPerParsedKey ==
  /\ [](SyncAllAnswered =>
          last[1].handler.pushed = PayloadsOf(last[1].handler, KeyParses))
  /\ []SyncAllReport
  /\ [][store' = store]_vars

\* A sync-all with a token has gone through three StageRecords of which one
\* has a key that does not parse: two pushes, one answered 200 and one not,
\* synced = 1 and failed = 2
C30_Witness ==
  /\ SyncAllAnswered
  /\ Len(last[1].handler.items) = 3
  /\ ~KeyParses(last[1].handler.items[1].stage_key)
  /\ Len(last[1].handler.pushed) = 2
  /\ last[1].response.synced = 1
  /\ last[1].response.failed = 2

\* The remote's name of each learning type submitted
RemoteVocabulary ==
  [fill_blank |-> "fill-in-blank", word_cloud |-> "word-cloud",
   verbal |-> "verbal-speaking", flashcard |-> "flashcard"]

\* The save request answered last
SaveAnswered == last # <<>> /\ "completion" \in DOMAIN last[1]

\* C25: every push of a save carries the remote's name of the request's
\* learning type, and every push of sync-all the remote's name of the
\* learning type of its key, a type outside the map being sent as it is;
\* the keys of the stored records carry the learning types as submitted,
\* and a key is found again under the submitted learning type.
C25_LearningTypeTranslated ==
  /\ \A r \in Requests :
       reqs[r].pc \in {"refind", "post"} =>
         \A i \in 1..Len(reqs[r].pushed) :
           reqs[r].pushed[i].learningType
             = RemoteVocabulary[reqs[r].completion.learningType]
  /\ SaveAnswered =>
       LET c == last[1].completion
       IN /\ \A i \in 1..Len(last[1].pushed) :
               last[1].pushed[i].learningType = RemoteVocabulary[c.learningType]
          /\ \E d \in DocsOf(c.userId, c.moduleId) :
               <<c.stage, c.learningType>> \in DOMAIN store[d].completedStages
          /\ last[1].response.alreadyCompleted = (calls[CallKey(c)].n > 1)
          /\ ~last[1].response.alreadyCompleted => last[1].pushed # <<>>
  /\ \A d \in 1..Len(store) :
       \A k \in DOMAIN store[d].completedStages :
         k[2] \in AllLearningTypes
  /\ \A r \in Requests :
       reqs[r].pc = "syncall_post" =>
         reqs[r].pushed[Len(reqs[r].pushed)].learningType
           = RemoteVocabulary[reqs[r].items[reqs[r].index].stage_key[2]]
  /\ SyncAllAnswered =>
       LET q == last[1].handler
       IN /\ Len(q.pushed) = Len(q.items)
          /\ \A j \in 1..Len(q.pushed) :
               /\ q.pushed[j].learningType = RemoteVocabulary[q.items[j].stage_key[2]]
               /\ q.pushed[j].stage = q.items[j].stage_key[1]

\* After saves for word_cloud and for a learning type outside the map, a
\* sync-all has pushed the two StageRecords as word-cloud and under the
\* unmapped name
C25_Witness ==
  /\ SyncAllAnswered
  /\ {last[1].handler.pushed[j].learningType : j \in 1..Len(last[1].handler.pushed)}
       = {"word-cloud", "flashcard"}
  /\ {k[4] : k \in DOMAIN calls} = {"word_cloud", "flashcard"}

\* C26: a request whose replay loop has started (it is suspended at a push)
\* eventually responds, whatever its pushes come back with and whatever the
\* other requests do, and it never makes more pushes than its stage number.
C26_ReplayTerminates ==
  /\ \A r \in Requests : (reqs[r].pc = "post") ~> (reqs[r].pc = "done")
  /\ [](\A r \in Requests :
          reqs[r].pc = "post" => Len(reqs[r].pushed) <= reqs[r].completion.stage)

\* A request for stage 3 is at its third push after its first two pushes
\* failed
C26_Witness ==
  \E r \in Requests :
    /\ reqs[r].pc = "post"
    /\ reqs[r].completion.stage = 3
    /\ Len(reqs[r].pushed) = 3
    /\ reqs[r].synced_count = 0

\* The positions of the records the scan of line 650 returns, and those of
\* user u among them
Scanned ==
  1..(IF Len(store) <= LeaderboardScanLimit THEN Len(store) ELSE LeaderboardScanLimit)
ScannedOf(u) == {i \in Scanned : store[i].userId = u}

RECURSIVE SumAwarded(_)
SumAwarded(K) ==
  IF K = {} THEN 0
  ELSE LET k == CHOOSE x \in K : TRUE
       IN calls[k].pointsAwarded + SumAwarded(K \ {k})

\* C28: a key that a call has been answered for is held by a stored record
\* of its (userId, moduleId) in every later state, also when requests for
\* different keys of one record interleave; and once every request is
\* answered, a record whose keys were each submitted once holds as
\* totalPoints the sum of the points awarded.
C28_NoAcknowledgedLoss ==
  /\ \A k \in DOMAIN calls :
       \E i \in DocsOf(k[1], k[2]) : <<k[3], k[4]>> \in DOMAIN store[i].completedStages
  /\ Quiescent =>
       \A u \in Users, m \in Modules :
         (CalledFor(u, m) # {} /\ \A k \in CalledFor(u, m) : calls[k].n = 1) =>
           \A i \in DocsOf(u, m) :
             Cardinality(DocsOf(u, m)) = 1 =>
               store[i].totalPoints = SumAwarded(CalledFor(u, m))

\* C29: of the pushes of a save, the one for the stage being completed
\* carries the event's cardId, timeSpent and accuracy and passed = true
\* exactly when the event earned points; every push for a prior stage
\* carries passed = true whatever the stored points, and the stored cardId,
\* timeSpent and accuracy, or the event's cardId, 60 and 100 for a field
\* the stored StageRecord does not have.
C29_PayloadFields ==
  (SaveAnswered /\ LastRecordedWithToken) =>
    LET c == last[1].completion
    IN \A i \in 1..Len(last[1].pushed) :
         LET payload == last[1].pushed[i]
         IN IF payload.stage = c.stage
            THEN /\ payload.passed = (c.pointsEarned > 0)
                 /\ payload.cardId = c.cardId
                 /\ payload.timeSpent = c.timeSpent
                 /\ payload.accuracy = c.accuracy
            ELSE LET rec == StoredRecord(c, payload.stage)
                 IN /\ payload.passed
                    /\ payload.cardId =
                         (IF "cardId" \in DOMAIN rec THEN rec.cardId ELSE c.cardId)
                    /\ payload.timeSpent =
                         (IF "timeSpent" \in DOMAIN rec THEN rec.timeSpent
                          ELSE DefaultTimeSpent)
                    /\ payload.accuracy =
                         (IF "accuracy" \in DOMAIN rec THEN rec.accuracy
                          ELSE DefaultAccuracy)

\* Stage 3 has been recorded with no points on top of a stage 1 of the
\* older shape and a stage 2 stored with no points: the push of stage 1
\* carries the event's card, 60 and 100, the push of stage 2 the stored
\* card with passed = true, and the push of stage 3 passed = false
C29_Witness ==
  /\ SaveAnswered
  /\ LastRecordedWithToken
  /\ last[1].completion.stage = 3
  /\ last[1].completion.pointsEarned = 0
  /\ Len(last[1].pushed) = 3
  /\ "cardId" \notin DOMAIN StoredRecord(last[1].completion, 1)
  /\ last[1].pushed[1].cardId = last[1].completion.cardId
  /\ last[1].pushed[1].timeSpent = DefaultTimeSpent
  /\ last[1].pushed[1].accuracy = DefaultAccuracy
  /\ StoredRecord(last[1].completion, 2).pointsEarned = 0
  /\ last[1].pushed[2].passed
  /\ last[1].pushed[2].timeSpent = StoredRecord(last[1].completion, 2).timeSpent
  /\ ~last[1].pushed[3].passed

====
